---------------------------- MODULE Spec2Model ----------------------------
(***************************************************************************)
(* Configurator page of the file-index application: the form document      *)
(* (site / api / environment), the load-config, load-env and generate      *)
(* operations of ConfiguratorPage.tsx, and the footer template formatter   *)
(* formatFooterContent.                                                    *)
(*                                                                         *)
(* Strings are sequences of one-character strings, so that the regular     *)
(* expressions of the source are modelled character by character.  An      *)
(* optional value (undefined | T) is a sequence of length 0 or 1.          *)
(***************************************************************************)
EXTENDS Integers, Sequences, FiniteSets, TLC

----------------------------------------------------------------------------
(* Optional values and the ?? operator of the source.                      *)

None == << >>

Some(v) == << v >>

Nullish(opt, default) ==
  IF opt = None THEN default ELSE opt[1]

----------------------------------------------------------------------------
(* Character classes of JavaScript regular expressions.                    *)

WhiteSpace ==
  {" ", "\n", "\t"}

Digits ==
  {"0", "1", "2", "3", "4", "5", "6", "7", "8", "9"}

WordChars ==
  Digits \cup {"_"} \cup
  {"a", "b", "c", "d", "e", "f", "g", "h", "i", "j", "k", "l", "m",
   "n", "o", "p", "q", "r", "s", "t", "u", "v", "w", "x", "y", "z",
   "A", "B", "C", "D", "E", "F", "G", "H", "I", "J", "K", "L", "M",
   "N", "O", "P", "Q", "R", "S", "T", "U", "V", "W", "X", "Y", "Z"}

(* Greedy \s*, \w* and \d* from position i: the first position not in the  *)
(* class (Len(s) + 1 when the run reaches the end).                        *)
SkipClass(s, i, class) ==
  CHOOSE j \in i..(Len(s) + 1) :
    /\ \A k \in i..(j - 1) : s[k] \in class
    /\ (j = Len(s) + 1 \/ s[j] \notin class)

(* String.prototype.trim *)
Trim(s) ==
  LET a == SkipClass(s, 1, WhiteSpace)
  IN IF a > Len(s) THEN << >>
     ELSE LET b == CHOOSE j \in a..Len(s) :
                     /\ s[j] \notin WhiteSpace
                     /\ \A k \in (j + 1)..Len(s) : s[k] \in WhiteSpace
          IN SubSeq(s, a, b)

(* Array.prototype.join *)
RECURSIVE Join(_, _)
Join(strs, sep) ==
  IF Len(strs) = 0 THEN << >>
  ELSE IF Len(strs) = 1 THEN strs[1]
  ELSE strs[1] \o sep \o Join(Tail(strs), sep)

(* Number.prototype.toString for a natural number. *)
DigitChar(d) ==
  CASE d = 0 -> "0" [] d = 1 -> "1" [] d = 2 -> "2" [] d = 3 -> "3"
    [] d = 4 -> "4" [] d = 5 -> "5" [] d = 6 -> "6" [] d = 7 -> "7"
    [] d = 8 -> "8" [] d = 9 -> "9"

RECURSIVE NumberToString(_)
NumberToString(n) ==
  IF n < 10 THEN << DigitChar(n) >>
  ELSE NumberToString(n \div 10) \o << DigitChar(n % 10) >>

----------------------------------------------------------------------------
(* String literals of the source.                                          *)

StrYear ==
  <<"y", "e", "a", "r">>

StrRepository ==
  <<"r", "e", "p", "o", "s", "i", "t", "o", "r", "y">>

StrPoweredBy ==
  <<"p", "o", "w", "e", "r", "e", "d", "B", "y">>

StrAuthor ==
  <<"a", "u", "t", "h", "o", "r">>

StrVersion ==
  <<"v", "e", "r", "s", "i", "o", "n">>

StrSiteName ==
  <<"s", "i", "t", "e", "N", "a", "m", "e">>

StrHandle ==
  <<"h", "a", "n", "d", "l", "e">>

StrCreator ==
  <<"c", "r", "e", "a", "t", "o", "r">>

StrProto ==
  <<"_", "_", "p", "r", "o", "t", "o", "_", "_">>

StrConstructor ==
  <<"c", "o", "n", "s", "t", "r", "u", "c", "t", "o", "r">>

StrToString ==
  <<"t", "o", "S", "t", "r", "i", "n", "g">>

StrValueOf ==
  <<"v", "a", "l", "u", "e", "O", "f">>

RepositoryLink ==
  <<"[", "S", "o", "u", "r", "c", "e", " ", "C", "o", "d", "e", "]", "(", "h", "t", "t", "p", "s", ":", "/", "/", "g", "i", "t", "h", "u", "b", ".", "c", "o", "m", "/", "m", "b", "a", "h", "a", "r", "i", "p", "/", "n", "e", "x", "t", "-", "g", "d", "r", "i", "v", "e", "-", "i", "n", "d", "e", "x", ")">>

PoweredByHead ==
  <<"P", "o", "w", "e", "r", "e", "d", " ", "b", "y", " ", "[", "n", "e", "x", "t", "-", "g", "d", "r", "i", "v", "e", "-", "i", "n", "d", "e", "x", " ", "v">>

PoweredByTail ==
  <<"]", "(", "h", "t", "t", "p", "s", ":", "/", "/", "g", "i", "t", "h", "u", "b", ".", "c", "o", "m", "/", "m", "b", "a", "h", "a", "r", "i", "p", "/", "n", "e", "x", "t", "-", "g", "d", "r", "i", "v", "e", "-", "i", "n", "d", "e", "x", ")">>

DefaultAuthor ==
  <<"m", "b", "a", "h", "a", "r", "i", "p">>

DefaultVersion ==
  <<"0", ".", "0", ".", "0">>

DefaultSiteName ==
  <<"n", "e", "x", "t", "-", "g", "d", "r", "i", "v", "e", "-", "i", "n", "d", "e", "x">>

DefaultHandle ==
  <<"@", "_", "_", "m", "b", "a", "h", "a", "r", "i", "p", "_", "_">>

CreatorName ==
  <<"m", "b", "a", "h", "a", "r", "i", "p">>

ObjectPrototypeText ==
  <<"[", "o", "b", "j", "e", "c", "t", " ", "O", "b", "j", "e", "c", "t", "]">>

NativeObjectText ==
  <<"f", "u", "n", "c", "t", "i", "o", "n", " ", "O", "b", "j", "e", "c", "t", "(", ")", " ", "{", " ", "[", "n", "a", "t", "i", "v", "e", " ", "c", "o", "d", "e", "]", " ", "}">>

NativeToStringText ==
  <<"f", "u", "n", "c", "t", "i", "o", "n", " ", "t", "o", "S", "t", "r", "i", "n", "g", "(", ")", " ", "{", " ", "[", "n", "a", "t", "i", "v", "e", " ", "c", "o", "d", "e", "]", " ", "}">>

NativeValueOfText ==
  <<"f", "u", "n", "c", "t", "i", "o", "n", " ", "v", "a", "l", "u", "e", "O", "f", "(", ")", " ", "{", " ", "[", "n", "a", "t", "i", "v", "e", " ", "c", "o", "d", "e", "]", " ", "}">>

DefaultTemplate ==
  <<"%", "s", " ", "-", " ", "%", "t">>

TextAnn ==
  <<"A", "n", "n">>

TextMyIndex ==
  <<"M", "y", " ", "I", "n", "d", "e", "x">>

TextAtAnn ==
  <<"@", "a", "n", "n">>

TextYearToken ==
  <<"{", "{", " ", "y", "e", "a", "r", " ", "}", "}">>

TextPoweredByToken ==
  <<"{", "{", " ", "p", "o", "w", "e", "r", "e", "d", "B", "y", " ", "}", "}">>

TextBuiltBy ==
  <<"B", "u", "i", "l", "t", " ", "b", "y", " ">>

TextCreatorToken ==
  <<"{", "{", " ", "c", "r", "e", "a", "t", "o", "r", " ", "}", "}">>

TextAuthorToken ==
  <<"{", "{", "a", "u", "t", "h", "o", "r", "}", "}">>

TextSiteNameToken ==
  <<"{", "{", "s", "i", "t", "e", "N", "a", "m", "e", "}", "}">>

TextHandleToken ==
  <<"{", "{", " ", "h", "a", "n", "d", "l", "e", " ", "}", "}">>

TextVersionToken ==
  <<"{", "{", "v", "e", "r", "s", "i", "o", "n", "}", "}">>

TextRepositoryToken ==
  <<"{", "{", " ", "r", "e", "p", "o", "s", "i", "t", "o", "r", "y", " ", "}", "}">>

TextFooToken ==
  <<"{", "{", " ", "f", "o", "o", " ", "}", "}">>

TextProtoToken ==
  <<"{", "{", "_", "_", "p", "r", "o", "t", "o", "_", "_", "}", "}">>

TextOpen ==
  <<"{", "{">>

TextClose ==
  <<"}", "}">>

TextYearWord ==
  <<"y", "e", "a", "r">>

TextSpace ==
  <<" ">>

TextDash ==
  <<"-">>

RunningVersion ==
  <<"2", ".", "0", ".", "4">>

StrUndefined ==
  <<"u", "n", "d", "e", "f", "i", "n", "e", "d">>

StrVersionColon ==
  <<"v", "e", "r", "s", "i", "o", "n", ":">>

TextQuoted120 ==
  <<"\"", "1", ".", "2", ".", "0", "\"">>

Text120 ==
  <<"1", ".", "2", ".", "0">>

Text200 ==
  <<"2", ".", "0", ".", "0">>

Text999 ==
  <<"9", ".", "9", ".", "9">>

TextX ==
  <<"x">>

TextQuote ==
  <<"'">>

TextOne ==
  <<"1">>

Text100 ==
  <<"1", ".", "0", ".", "0">>

Text210 ==
  <<"2", ".", "1", ".", "0">>

----------------------------------------------------------------------------
(* Bounds of the model.                                                    *)

MaxPieces == 2

MaxLines == 2

YearSpan == 1

MaxInFlight == 2

MaxDownloads == 1

MaxTextPieces == 3

MaxNamePieces == 3

MaxItems == 2

ClockSpan == 1
----------------------------------------------------------------------------
(* The configuration document and its defaults.                            *)

(* config (the running application's own configuration): the version and   *)
(* the site settings formatFooterContent falls back to.                    *)
config ==
  [version |-> Some(RunningVersion),
   siteConfig |-> [siteName |-> Some(DefaultSiteName),
                   siteNameTemplate |-> Some(DefaultTemplate),
                   siteAuthor |-> Some(DefaultAuthor),
                   twitterHandle |-> Some(DefaultHandle),
                   navbarItems |-> << >>,
                   supports |-> << >>,
                   footer |-> << [value |-> TextPoweredByToken] >>]]

(* initialConfiguration: the defaults the form is created with. *)
initialConfiguration ==
  [site |-> config.siteConfig, api |-> "api-default", environment |-> "env-default"]

----------------------------------------------------------------------------
VARIABLES
  form,              \* react-hook-form values: [site, api, environment]
  isDirty,           \* form.formState.isDirty
  isValid,           \* form.formState.isValid
  isSubmitting,      \* form.formState.isSubmitting
  isLoadingConfig,   \* useState flag of the Load Config button
  isLoadingEnv,      \* useState flag of the Load Env button
  configOps,         \* Load Config operations in flight, oldest first
  envOps,            \* Load Env operations in flight, oldest first
  submitOps,         \* onFormSubmit invocations in flight, oldest first
  toasts,            \* notification shown under each toast id family
  downloads,         \* file names of the downloads triggered so far
  versionExpectMap,  \* static table: version group -> accepted versions
  year,              \* new Date().getFullYear()
  content            \* FooterField preview state (None until mounted)

vars ==
  <<form, isDirty, isValid, isSubmitting, isLoadingConfig, isLoadingEnv,
    configOps, envOps, submitOps, toasts, downloads, versionExpectMap, year,
    content>>

----------------------------------------------------------------------------
(* Footer template formatter.                                              *)

(* Property lookup obj[key] of a plain object: own properties first, then  *)
(* the properties inherited from Object.prototype; None is undefined.      *)
ObjectPrototype ==
  (StrProto :> ObjectPrototypeText) @@
  (StrConstructor :> NativeObjectText) @@
  (StrToString :> NativeToStringText) @@
  (StrValueOf :> NativeValueOfText)

GetProperty(obj, key) ==
  IF key \in DOMAIN obj THEN Some(obj[key])
  ELSE IF key \in DOMAIN ObjectPrototype THEN Some(ObjectPrototype[key])
  ELSE None

(* One attempt of /{{\s*(\w+)\s*}}/ at position i of s. *)
NoMatch ==
  [ok |-> FALSE, key |-> << >>, next |-> 0]

TokenAt(s, i) ==
  IF ~(i + 1 <= Len(s) /\ s[i] = "{" /\ s[i + 1] = "{") THEN NoMatch
  ELSE LET a == SkipClass(s, i + 2, WhiteSpace)
           b == SkipClass(s, a, WordChars)
           c == SkipClass(s, b, WhiteSpace)
       IN IF b > a /\ c + 1 <= Len(s) /\ s[c] = "}" /\ s[c + 1] = "}"
          THEN [ok |-> TRUE, key |-> SubSeq(s, a, b - 1), next |-> c + 2]
          ELSE NoMatch

(* Variant of TokenMatches for the regular expression without the g flag:  *)
(* the leftmost match only.                                                *)
TokenMatches_FirstOnly(s, i) ==
  LET starts == {k \in i..Len(s) : TokenAt(s, k).ok}
  IN IF starts = {} THEN << >>
     ELSE LET k == CHOOSE x \in starts : \A y \in starts : x <= y
          IN << [start |-> k, key |-> TokenAt(s, k).key, next |-> TokenAt(s, k).next] >>

(* The matches of /{{\s*(\w+)\s*}}/g in s from position i on: leftmost       *)
(* first, each search resuming where the previous match ended.             *)
RECURSIVE TokenMatches(_, _)
TokenMatches(s, i) ==
  IF i > Len(s) THEN << >>
  ELSE LET m == TokenAt(s, i)
       IN IF m.ok
          THEN << [start |-> i, key |-> m.key, next |-> m.next] >> \o TokenMatches(s, m.next)
          ELSE TokenMatches(s, i + 1)

(* Variant of Replacer that substitutes again inside a value that is *)
(* itself a token.                                                  *)
Replacer_Rescanning(map, key) ==
  LET value == Nullish(GetProperty(map, key), << >>)
      m == TokenAt(value, 1)
  IN IF m.ok /\ m.next = Len(value) + 1
     THEN Nullish(GetProperty(map, m.key), << >>)
     ELSE value

(* The replacer callback (_, key) => formatMap[key] ?? "". *)
Replacer(map, key) ==
  Nullish(GetProperty(map, key), << >>)

(* s.replace(/{{\s*(\w+)\s*}}/g, replacer): the text between the matches   *)
(* is copied, each match gives way to the replacer's result for its key.   *)
ReplaceTokens(s, map) ==
  LET ms == TokenMatches(s, 1)
      before(k) == SubSeq(s, IF k = 1 THEN 1 ELSE ms[k - 1].next, ms[k].start - 1)
      parts == [k \in 1..Len(ms) |-> before(k) \o Replacer(map, ms[k].key)]
      rest == SubSeq(s, IF Len(ms) = 0 THEN 1 ELSE ms[Len(ms)].next, Len(s))
  IN Join(parts, << >>) \o rest

(* `${value}` inside a template literal. *)
TemplateText(opt) ==
  Nullish(opt, StrUndefined)

(* Variant of formatMap without the built-in defaults of the site fields. *)
formatMap_WithoutDefaults(data) ==
  (StrYear :> NumberToString(year)) @@
  (StrRepository :> RepositoryLink) @@
  (StrPoweredBy :> PoweredByHead \o TemplateText(config.version) \o PoweredByTail) @@
  (StrAuthor :> Nullish(data.siteAuthor, << >>)) @@
  (StrVersion :> Nullish(config.version, DefaultVersion)) @@
  (StrSiteName :> Nullish(data.siteName, << >>)) @@
  (StrHandle :> Nullish(data.twitterHandle, << >>)) @@
  (StrCreator :> CreatorName)

formatMap(data) ==
  (StrYear :> NumberToString(year)) @@
  (StrRepository :> RepositoryLink) @@
  (StrPoweredBy :> PoweredByHead \o TemplateText(config.version) \o PoweredByTail) @@
  (StrAuthor :> Nullish(data.siteAuthor, DefaultAuthor)) @@
  (StrVersion :> Nullish(config.version, DefaultVersion)) @@
  (StrSiteName :> Nullish(data.siteName, DefaultSiteName)) @@
  (StrHandle :> Nullish(data.twitterHandle, DefaultHandle)) @@
  (StrCreator :> CreatorName)

(* Variant of formatFooterContent that joins the lines with an empty line *)
(* between two.                                                          *)
formatFooterContent_BlankLineBetween(text, siteConfig) ==
  LET data == Nullish(siteConfig, config.siteConfig)
      joined == Join([i \in DOMAIN text |-> Trim(text[i].value)], << "\n", "\n" >>)
  IN ReplaceTokens(joined, formatMap(data))

formatFooterContent(text, siteConfig) ==
  LET data == Nullish(siteConfig, config.siteConfig)
      joined == Join([i \in DOMAIN text |-> Trim(text[i].value)], << "\n" >>)
  IN ReplaceTokens(joined, formatMap(data))

----------------------------------------------------------------------------
(* Collaborators of the page: file picker, server actions, schema, UI kit. *)

(* A PickFileResponse: {success: true, data} | {success: false, message,   *)
(* details}.                                                               *)
PickSuccess(text) ==
  [success |-> TRUE, data |-> Some(text), message |-> "", details |-> << >>]

PickFailure ==
  [success |-> FALSE, data |-> None, message |-> "Failed to read file", details |-> << >>]

(* The result of a server action: {success: true, message, data} |         *)
(* {success: false, message, error}.                                       *)
ActionSuccess(message, data) ==
  [success |-> TRUE, message |-> message, data |-> Some(data)]

ActionFailure(message) ==
  [success |-> FALSE, message |-> message, data |-> None]

(* The configurations ProcessConfiguration can migrate a file to. *)
LoadedSite ==
  [siteName |-> Some(TextMyIndex),
   siteNameTemplate |-> Some(DefaultTemplate),
   siteAuthor |-> Some(TextAnn),
   twitterHandle |-> None,
   navbarItems |-> << [icon |-> "Book", name |-> "Docs", href |-> "/docs", external |-> FALSE] >>,
   supports |-> << [currency |-> "USD", name |-> "Kofi", href |-> "https://ko-fi.com/ann"] >>,
   footer |-> << [value |-> TextBuiltBy \o TextCreatorToken], [value |-> TextYearToken] >>]

ProcessConfigurationResults ==
  { ActionFailure("Failed to parse configuration"),
    ActionSuccess("Configuration loaded", [api |-> "api-loaded", site |-> LoadedSite]),
    ActionSuccess("Configuration loaded",
                  [api |-> "api-loaded-2", site |-> [LoadedSite EXCEPT !.twitterHandle = Some(TextAtAnn)]]) }

ProcessEnvironmentConfigResults ==
  { ActionFailure("Failed to parse environment"),
    ActionSuccess("Environment loaded", "env-loaded") }

GenerateConfigurationResults ==
  { ActionFailure("Failed to generate configuration"),
    ActionSuccess("Configuration generated", "zip") }

(* Schema_App_Configuration: the documents the resolver accepts. *)
Schema_App_Configuration(values) ==
  /\ values.site.siteName # None
  /\ values.site.siteName # Some(<< >>)

(* LoadingButton / Button: a click reaches onClick only when the button is *)
(* neither loading nor disabled.                                           *)
ButtonEnabled(loading, disabled) ==
  ~loading /\ ~disabled

(* The candidate static tables versionExpectMap, the keys in the order     *)
(* Object.entries yields them.                                             *)
VersionGroups ==
  << "v1", "v2", "latest" >>

DisjointVersionTable ==
  [v1 |-> {Text100, Text120}, v2 |-> {Text200}, latest |-> {Text210}]

OverlappingVersionTable ==
  [v1 |-> {Text100, Text120}, v2 |-> {Text200}, latest |-> {Text200, Text210}]

VersionTables ==
  {DisjointVersionTable, OverlappingVersionTable}

----------------------------------------------------------------------------
(* Notifications (sonner): one slot per toast id family.                   *)

NoToast ==
  [type |-> "none", message |-> "", version |-> None]

Toast(type, message) ==
  [type |-> type, message |-> message, version |-> None]

VersionToast(type, message, version) ==
  [type |-> type, message |-> message, version |-> Some(version)]

RemoveAt(seq, i) ==
  SubSeq(seq, 1, i - 1) \o SubSeq(seq, i + 1, Len(seq))

----------------------------------------------------------------------------
(* Version detection and classification of onLoadConfig.                   *)

(* Variant of VersionAt for /version:\s*(\d+\.\d+\.\d+)/, no quote allowed. *)
VersionAt_WithoutQuote(s, i) ==
  IF ~(i + 7 <= Len(s) /\ SubSeq(s, i, i + 7) = StrVersionColon) THEN None
  ELSE LET b == SkipClass(s, i + 8, WhiteSpace)
           c == SkipClass(s, b, Digits)
           d == SkipClass(s, c + 1, Digits)
           e == SkipClass(s, d + 1, Digits)
       IN IF /\ c > b /\ c <= Len(s) /\ s[c] = "."
             /\ d > c + 1 /\ d <= Len(s) /\ s[d] = "."
             /\ e > d + 1
          THEN Some(SubSeq(s, b, e - 1))
          ELSE None

(* One attempt of /version:\s*["']?(\d+\.\d+\.\d+)["']?/ at position i:    *)
(* the captured group, or None.                                            *)
VersionAt(s, i) ==
  IF ~(i + 7 <= Len(s) /\ SubSeq(s, i, i + 7) = StrVersionColon) THEN None
  ELSE LET a == SkipClass(s, i + 8, WhiteSpace)
           b == IF a <= Len(s) /\ s[a] \in {"\"", "'"} THEN a + 1 ELSE a
           c == SkipClass(s, b, Digits)
           d == SkipClass(s, c + 1, Digits)
           e == SkipClass(s, d + 1, Digits)
       IN IF /\ c > b /\ c <= Len(s) /\ s[c] = "."
             /\ d > c + 1 /\ d <= Len(s) /\ s[d] = "."
             /\ e > d + 1
          THEN Some(SubSeq(s, b, e - 1))
          ELSE None

(* regex.exec(s)?.[1]: the capture of the leftmost match from i on. *)
RECURSIVE ExecVersion(_, _)
ExecVersion(s, i) ==
  IF i > Len(s) THEN None
  ELSE LET m == VersionAt(s, i)
       IN IF m # None THEN m ELSE ExecVersion(s, i + 1)

(* Variant of FindGroup that matches on the major version only. *)
RECURSIVE FindGroup_ByMajor(_, _, _)
FindGroup_ByMajor(map, version, k) ==
  IF k > Len(VersionGroups) THEN None
  ELSE IF \E x \in map[VersionGroups[k]] : x[1] = version[1] THEN Some(VersionGroups[k])
  ELSE FindGroup_ByMajor(map, version, k + 1)

(* Object.entries(versionExpectMap).find(([_, v]) => v.includes(x))?.[0] *)
RECURSIVE FindGroup(_, _, _)
FindGroup(map, version, k) ==
  IF k > Len(VersionGroups) THEN None
  ELSE IF version \in map[VersionGroups[k]] THEN Some(VersionGroups[k])
  ELSE FindGroup(map, version, k + 1)

----------------------------------------------------------------------------
(* FooterField: the preview of the rendered footer.                        *)

(* templates: the token codes the footer guide of FooterField offers. *)
templates ==
  << StrVersion, StrPoweredBy, StrYear, StrRepository, StrCreator, StrAuthor,
     StrSiteName, StrHandle >>

(* useState initializer of FooterField, run once when the field mounts. *)
MountFooterField ==
  /\ content = None
  /\ content' = Some(formatFooterContent(form.site.footer, Some(form.site)))
  /\ UNCHANGED <<form, isDirty, isValid, isSubmitting, isLoadingConfig,
                 isLoadingEnv, configOps, envOps, submitOps, toasts, downloads,
                 versionExpectMap, year>>

(* onClick of the Reload Preview button. *)
ReloadPreview ==
  /\ content # None
  /\ content' = Some(formatFooterContent(form.site.footer, Some(form.site)))
  /\ UNCHANGED <<form, isDirty, isValid, isSubmitting, isLoadingConfig,
                 isLoadingEnv, configOps, envOps, submitOps, toasts, downloads,
                 versionExpectMap, year>>

----------------------------------------------------------------------------
(* react-hook-form.                                                        *)

(* set(values, name, value) for the field names the page uses. *)
SetValue(values, name, value) ==
  CASE name = "api" -> [values EXCEPT !.api = value]
    [] name = "environment" -> [values EXCEPT !.environment = value]
    [] name = "site" -> [values EXCEPT !.site = value]
    [] name = "site.siteName" -> [values EXCEPT !.site.siteName = value]
    [] name = "site.siteNameTemplate" -> [values EXCEPT !.site.siteNameTemplate = value]
    [] name = "site.navbarItems" -> [values EXCEPT !.site.navbarItems = value]
    [] name = "site.supports" -> [values EXCEPT !.site.supports = value]
    [] name = "site.footer" -> [values EXCEPT !.site.footer = value]

(* get(values, name) for the field names the page uses. *)
GetValue(values, name) ==
  CASE name = "api" -> values.api
    [] name = "environment" -> values.environment
    [] name = "site" -> values.site
    [] name = "site.siteName" -> values.site.siteName
    [] name = "site.siteNameTemplate" -> values.site.siteNameTemplate
    [] name = "site.siteAuthor" -> values.site.siteAuthor
    [] name = "site.twitterHandle" -> values.site.twitterHandle
    [] name = "site.navbarItems" -> values.site.navbarItems
    [] name = "site.supports" -> values.site.supports
    [] name = "site.footer" -> values.site.footer

(* The values a user can type into the inputs of the three sections. *)
FieldInputs(name) ==
  CASE name = "site.siteName" -> {Some(TextMyIndex), Some(<< >>)}

(* Variant of EditField that renders the footer preview anew. *)
EditField_RefreshingPreview(name, value) ==
  /\ form' = SetValue(form, name, value)
  /\ isDirty' = (form' # initialConfiguration)
  /\ isValid' = Schema_App_Configuration(form')
  /\ content' = Some(formatFooterContent(form'.site.footer, Some(form'.site)))
  /\ UNCHANGED <<isSubmitting, isLoadingConfig, isLoadingEnv, configOps, envOps,
                 submitOps, toasts, downloads, versionExpectMap, year>>

(* field.onChange of a registered input: the value is stored, isDirty and  *)
(* isValid are recomputed over the whole form.                             *)
EditField(name, value) ==
  /\ form' = SetValue(form, name, value)
  /\ isDirty' = (form' # initialConfiguration)
  /\ isValid' = Schema_App_Configuration(form')
  /\ UNCHANGED <<isSubmitting, isLoadingConfig, isLoadingEnv, configOps, envOps,
                 submitOps, toasts, downloads, versionExpectMap, year, content>>

(* Variant of OnReset whose Reset All leaves the environment section. *)
OnReset_KeepingEnvironment(category) ==
  /\ IF category = "all"
     THEN /\ form' = [initialConfiguration EXCEPT !.environment = form.environment]
          /\ isDirty' = (form' # initialConfiguration)
          /\ isSubmitting' = FALSE
     ELSE /\ form' = SetValue(form, category, initialConfiguration[category])
          /\ isDirty' = (form' # initialConfiguration)
          /\ UNCHANGED isSubmitting
  /\ isValid' = Schema_App_Configuration(form')
  /\ toasts' = [toasts EXCEPT !.reset = Toast("success", "Form reverted to initial state")]
  /\ UNCHANGED <<isLoadingConfig, isLoadingEnv, configOps, envOps, submitOps,
                 downloads, versionExpectMap, year, content>>

(* onReset(category): form.reset for "all" (the Reset All button), *)
(* form.resetField for a section; then the toast.                   *)
OnReset(category) ==
  /\ IF category = "all"
     THEN /\ form' = initialConfiguration
          /\ isDirty' = FALSE
          /\ isSubmitting' = FALSE
     ELSE /\ form' = SetValue(form, category, initialConfiguration[category])
          /\ isDirty' = (form' # initialConfiguration)
          /\ UNCHANGED isSubmitting
  /\ isValid' = Schema_App_Configuration(form')
  /\ toasts' = [toasts EXCEPT !.reset = Toast("success", "Form reverted to initial state")]
  /\ UNCHANGED <<isLoadingConfig, isLoadingEnv, configOps, envOps, submitOps,
                 downloads, versionExpectMap, year, content>>

(* Variant of ResetField that reverts the whole form. *)
ResetField_WholeForm(name) ==
  /\ form' = initialConfiguration
  /\ isDirty' = FALSE
  /\ isValid' = Schema_App_Configuration(form')
  /\ UNCHANGED <<isSubmitting, isLoadingConfig, isLoadingEnv, configOps, envOps,
                 submitOps, toasts, downloads, versionExpectMap, year, content>>

(* form.resetField(name), the onResetField callback handed to the three    *)
(* sub-forms: the field goes back to its default value, isDirty and        *)
(* isValid are recomputed.  The reset control of a field is shown disabled *)
(* while the field is not dirty; the action is allowed in every state,     *)
(* which includes the states where the control is enabled.                 *)
ResetField(name) ==
  /\ form' = SetValue(form, name, GetValue(initialConfiguration, name))
  /\ isDirty' = (form' # initialConfiguration)
  /\ isValid' = Schema_App_Configuration(form')
  /\ UNCHANGED <<isSubmitting, isLoadingConfig, isLoadingEnv, configOps, envOps,
                 submitOps, toasts, downloads, versionExpectMap, year, content>>

----------------------------------------------------------------------------
(* useFieldArray: the lists navbarItems, supports and footer, positions    *)
(* counted from 1.                                                         *)

(* The item each Add Item button appends. *)
NewItem(name) ==
  CASE name = "site.navbarItems" ->
         [icon |-> "Link", name |-> "New Item", href |-> "/new-item", external |-> FALSE]
    [] name = "site.supports" ->
         [currency |-> "USD", name |-> "Paypal", href |-> "https://paypal.me/acme"]
    [] name = "site.footer" -> [value |-> << >>]

(* Variant of appendAt that puts the item in front. *)
appendAt_First(list, value) ==
  << value >> \o list

appendAt(list, value) ==
  list \o << value >>

(* Variant of removeArrayAt that drops the first item whatever the index. *)
removeArrayAt_First(list, index) ==
  SubSeq(list, 2, Len(list))

removeArrayAt(list, index) ==
  SubSeq(list, 1, index - 1) \o SubSeq(list, index + 1, Len(list))

(* append(value) of the field array name. *)
AppendItem(name) ==
  /\ Len(GetValue(form, name)) < MaxItems
  /\ form' = SetValue(form, name, appendAt(GetValue(form, name), NewItem(name)))
  /\ isDirty' = (form' # initialConfiguration)
  /\ isValid' = Schema_App_Configuration(form')
  /\ UNCHANGED <<isSubmitting, isLoadingConfig, isLoadingEnv, configOps, envOps,
                 submitOps, toasts, downloads, versionExpectMap, year, content>>

(* remove(index) of the field array name, from the Delete button of the    *)
(* item shown at index.                                                    *)
RemoveItem(name, index) ==
  /\ index \in DOMAIN GetValue(form, name)
  /\ form' = SetValue(form, name, removeArrayAt(GetValue(form, name), index))
  /\ isDirty' = (form' # initialConfiguration)
  /\ isValid' = Schema_App_Configuration(form')
  /\ UNCHANGED <<isSubmitting, isLoadingConfig, isLoadingEnv, configOps, envOps,
                 submitOps, toasts, downloads, versionExpectMap, year, content>>

----------------------------------------------------------------------------
(* Load Config.                                                            *)

NewConfigOp ==
  [stage |-> "picking", response |-> PickFailure, loadedVersion |-> None,
   versionGroup |-> None, result |-> None]

(* Variant of ClickLoadConfig without setIsLoadingConfig(true). *)
ClickLoadConfig_WithoutFlag ==
  /\ ButtonEnabled(isLoadingConfig, FALSE)
  /\ Len(configOps) < MaxInFlight
  /\ configOps' = Append(configOps, NewConfigOp)
  /\ UNCHANGED <<form, isDirty, isValid, isSubmitting, isLoadingConfig, isLoadingEnv,
                 envOps, submitOps, toasts, downloads, versionExpectMap, year, content>>

(* onClick of the Load Config button: the flag is raised and the file      *)
(* picker opened.                                                          *)
ClickLoadConfig ==
  /\ ButtonEnabled(isLoadingConfig, FALSE)
  /\ Len(configOps) < MaxInFlight
  /\ isLoadingConfig' = TRUE
  /\ configOps' = Append(configOps, NewConfigOp)
  /\ UNCHANGED <<form, isDirty, isValid, isSubmitting, isLoadingEnv, envOps,
                 submitOps, toasts, downloads, versionExpectMap, year, content>>

(* The file picker has a response for operation i and schedules onLoad. *)
PickConfigFile(i, response) ==
  /\ i \in DOMAIN configOps
  /\ configOps[i].stage = "picking"
  /\ configOps' = [configOps EXCEPT ![i] = [@ EXCEPT !.stage = "picked", !.response = response]]
  /\ UNCHANGED <<form, isDirty, isValid, isSubmitting, isLoadingConfig, isLoadingEnv,
                 envOps, submitOps, toasts, downloads, versionExpectMap, year, content>>

(* Variant of FailLoadConfig that also reverts the form on an error. *)
FailLoadConfig_Resetting(i, toast) ==
  /\ toasts' = [toasts EXCEPT !.config = toast]
  /\ isLoadingConfig' = FALSE
  /\ configOps' = RemoveAt(configOps, i)
  /\ form' = initialConfiguration
  /\ UNCHANGED <<isDirty, isValid>>

(* An error return of onLoadConfig: error toast under the operation's id,  *)
(* flag lowered, nothing else touched.                                     *)
FailLoadConfig(i, toast) ==
  /\ toasts' = [toasts EXCEPT !.config = toast]
  /\ isLoadingConfig' = FALSE
  /\ configOps' = RemoveAt(configOps, i)
  /\ UNCHANGED <<form, isDirty, isValid>>

(* Variant of OnLoadConfig that goes on with "latest" for a version no     *)
(* group contains.                                                         *)
OnLoadConfig_DefaultingGroup(i) ==
  /\ i \in DOMAIN configOps
  /\ configOps[i].stage = "picked"
  /\ LET response == configOps[i].response
         loadedVersion == ExecVersion(response.data[1], 1)
         found == FindGroup(versionExpectMap, loadedVersion[1], 1)
         versionGroup == IF found = None THEN Some("latest") ELSE found
     IN IF ~response.success
        THEN FailLoadConfig(i, Toast("error", response.message))
        ELSE IF loadedVersion = None
        THEN FailLoadConfig(i, Toast("error", "Version not found in configuration file"))
        ELSE /\ toasts' = [toasts EXCEPT !.config =
                             VersionToast("loading", "Version detected, processing...", loadedVersion[1])]
             /\ configOps' = [configOps EXCEPT ![i] =
                                [@ EXCEPT !.stage = "processing",
                                          !.loadedVersion = loadedVersion,
                                          !.versionGroup = versionGroup]]
             /\ UNCHANGED <<form, isDirty, isValid, isLoadingConfig>>
  /\ UNCHANGED <<isSubmitting, isLoadingEnv, envOps, submitOps, downloads,
                 versionExpectMap, year, content>>

(* onLoadConfig from its start to the call of ProcessConfiguration. *)
OnLoadConfig(i) ==
  /\ i \in DOMAIN configOps
  /\ configOps[i].stage = "picked"
  /\ LET response == configOps[i].response
         loadedVersion == ExecVersion(response.data[1], 1)
         versionGroup == FindGroup(versionExpectMap, loadedVersion[1], 1)
     IN IF ~response.success
        THEN FailLoadConfig(i, Toast("error", response.message))
        ELSE IF loadedVersion = None
        THEN FailLoadConfig(i, Toast("error", "Version not found in configuration file"))
        ELSE IF versionGroup = None
        THEN FailLoadConfig(i, VersionToast("error", "Version not recognized", loadedVersion[1]))
        ELSE /\ toasts' = [toasts EXCEPT !.config =
                             VersionToast("loading", "Version detected, processing...", loadedVersion[1])]
             /\ configOps' = [configOps EXCEPT ![i] =
                                [@ EXCEPT !.stage = "processing",
                                          !.loadedVersion = loadedVersion,
                                          !.versionGroup = versionGroup]]
             /\ UNCHANGED <<form, isDirty, isValid, isLoadingConfig>>
  /\ UNCHANGED <<isSubmitting, isLoadingEnv, envOps, submitOps, downloads,
                 versionExpectMap, year, content>>

(* The server action ProcessConfiguration resolves with data. *)
ProcessConfigurationResolves(i, data) ==
  /\ i \in DOMAIN configOps
  /\ configOps[i].stage = "processing"
  /\ configOps' = [configOps EXCEPT ![i] = [@ EXCEPT !.stage = "resolved", !.result = Some(data)]]
  /\ UNCHANGED <<form, isDirty, isValid, isSubmitting, isLoadingConfig, isLoadingEnv,
                 envOps, submitOps, toasts, downloads, versionExpectMap, year, content>>

(* The server action rejects: onLoadConfig ends with an uncaught exception *)
(* at the await, before any of its remaining statements.                   *)
ProcessConfigurationRejects(i) ==
  /\ i \in DOMAIN configOps
  /\ configOps[i].stage = "processing"
  /\ configOps' = RemoveAt(configOps, i)
  /\ UNCHANGED <<form, isDirty, isValid, isSubmitting, isLoadingConfig, isLoadingEnv,
                 envOps, submitOps, toasts, downloads, versionExpectMap, year, content>>

(* Variant of OnLoadConfigResume without form.setValue("site", ...). *)
OnLoadConfigResume_WithoutSite(i) ==
  /\ i \in DOMAIN configOps
  /\ configOps[i].stage = "resolved"
  /\ LET data == configOps[i].result[1]
     IN IF ~data.success
        THEN FailLoadConfig(i, Toast("error", data.message))
        ELSE /\ form' = SetValue(SetValue(SetValue(SetValue(form,
                          "api", data.data[1].api),
                          "site.navbarItems", data.data[1].site.navbarItems),
                          "site.supports", data.data[1].site.supports),
                          "site.footer", data.data[1].site.footer)
             /\ toasts' = [toasts EXCEPT !.config = Toast("success", data.message)]
             /\ isLoadingConfig' = FALSE
             /\ configOps' = RemoveAt(configOps, i)
             /\ UNCHANGED <<isDirty, isValid>>
  /\ UNCHANGED <<isSubmitting, isLoadingEnv, envOps, submitOps, downloads,
                 versionExpectMap, year, content>>

(* Variant of OnLoadConfigResume that keeps the items the lists held and   *)
(* adds the migrated ones after them.                                      *)
OnLoadConfigResume_AppendingLists(i) ==
  /\ i \in DOMAIN configOps
  /\ configOps[i].stage = "resolved"
  /\ LET data == configOps[i].result[1]
     IN IF ~data.success
        THEN FailLoadConfig(i, Toast("error", data.message))
        ELSE /\ form' = SetValue(SetValue(SetValue(SetValue(SetValue(form,
                          "api", data.data[1].api),
                          "site", data.data[1].site),
                          "site.navbarItems", form.site.navbarItems \o data.data[1].site.navbarItems),
                          "site.supports", form.site.supports \o data.data[1].site.supports),
                          "site.footer", form.site.footer \o data.data[1].site.footer)
             /\ toasts' = [toasts EXCEPT !.config = Toast("success", data.message)]
             /\ isLoadingConfig' = FALSE
             /\ configOps' = RemoveAt(configOps, i)
             /\ UNCHANGED <<isDirty, isValid>>
  /\ UNCHANGED <<isSubmitting, isLoadingEnv, envOps, submitOps, downloads,
                 versionExpectMap, year, content>>

(* Variant of OnLoadConfigResume that also reverts the environment section. *)
OnLoadConfigResume_RevertingEnvironment(i) ==
  /\ i \in DOMAIN configOps
  /\ configOps[i].stage = "resolved"
  /\ LET data == configOps[i].result[1]
     IN IF ~data.success
        THEN FailLoadConfig(i, Toast("error", data.message))
        ELSE /\ form' = [site |-> data.data[1].site, api |-> data.data[1].api,
                         environment |-> initialConfiguration.environment]
             /\ toasts' = [toasts EXCEPT !.config = Toast("success", data.message)]
             /\ isLoadingConfig' = FALSE
             /\ configOps' = RemoveAt(configOps, i)
             /\ UNCHANGED <<isDirty, isValid>>
  /\ UNCHANGED <<isSubmitting, isLoadingEnv, envOps, submitOps, downloads,
                 versionExpectMap, year, content>>

(* onLoadConfig after the await: error return, or the five setValue calls. *)
OnLoadConfigResume(i) ==
  /\ i \in DOMAIN configOps
  /\ configOps[i].stage = "resolved"
  /\ LET data == configOps[i].result[1]
     IN IF ~data.success
        THEN FailLoadConfig(i, Toast("error", data.message))
        ELSE /\ form' = SetValue(SetValue(SetValue(SetValue(SetValue(form,
                          "api", data.data[1].api),
                          "site", data.data[1].site),
                          "site.navbarItems", data.data[1].site.navbarItems),
                          "site.supports", data.data[1].site.supports),
                          "site.footer", data.data[1].site.footer)
             /\ toasts' = [toasts EXCEPT !.config = Toast("success", data.message)]
             /\ isLoadingConfig' = FALSE
             /\ configOps' = RemoveAt(configOps, i)
             /\ UNCHANGED <<isDirty, isValid>>
  /\ UNCHANGED <<isSubmitting, isLoadingEnv, envOps, submitOps, downloads,
                 versionExpectMap, year, content>>

----------------------------------------------------------------------------
(* Load Env.                                                               *)

NewEnvOp ==
  [stage |-> "picking", response |-> PickFailure, result |-> None]

ClickLoadEnv ==
  /\ ButtonEnabled(isLoadingEnv, FALSE)
  /\ Len(envOps) < MaxInFlight
  /\ isLoadingEnv' = TRUE
  /\ envOps' = Append(envOps, NewEnvOp)
  /\ UNCHANGED <<form, isDirty, isValid, isSubmitting, isLoadingConfig, configOps,
                 submitOps, toasts, downloads, versionExpectMap, year, content>>

PickEnvFile(i, response) ==
  /\ i \in DOMAIN envOps
  /\ envOps[i].stage = "picking"
  /\ envOps' = [envOps EXCEPT ![i] = [@ EXCEPT !.stage = "picked", !.response = response]]
  /\ UNCHANGED <<form, isDirty, isValid, isSubmitting, isLoadingConfig, isLoadingEnv,
                 configOps, submitOps, toasts, downloads, versionExpectMap, year, content>>

FailLoadEnv(i, toast) ==
  /\ toasts' = [toasts EXCEPT !.env = toast]
  /\ isLoadingEnv' = FALSE
  /\ envOps' = RemoveAt(envOps, i)
  /\ UNCHANGED <<form, isDirty, isValid>>

(* onLoadEnv from its start to the call of ProcessEnvironmentConfig. *)
OnLoadEnv(i) ==
  /\ i \in DOMAIN envOps
  /\ envOps[i].stage = "picked"
  /\ IF ~envOps[i].response.success
     THEN FailLoadEnv(i, Toast("error", envOps[i].response.message))
     ELSE /\ toasts' = [toasts EXCEPT !.env = Toast("loading", "Processing environment file...")]
          /\ envOps' = [envOps EXCEPT ![i] = [@ EXCEPT !.stage = "processing"]]
          /\ UNCHANGED <<form, isDirty, isValid, isLoadingEnv>>
  /\ UNCHANGED <<isSubmitting, isLoadingConfig, configOps, submitOps, downloads,
                 versionExpectMap, year, content>>

ProcessEnvironmentConfigResolves(i, data) ==
  /\ i \in DOMAIN envOps
  /\ envOps[i].stage = "processing"
  /\ envOps' = [envOps EXCEPT ![i] = [@ EXCEPT !.stage = "resolved", !.result = Some(data)]]
  /\ UNCHANGED <<form, isDirty, isValid, isSubmitting, isLoadingConfig, isLoadingEnv,
                 configOps, submitOps, toasts, downloads, versionExpectMap, year, content>>

ProcessEnvironmentConfigRejects(i) ==
  /\ i \in DOMAIN envOps
  /\ envOps[i].stage = "processing"
  /\ envOps' = RemoveAt(envOps, i)
  /\ UNCHANGED <<form, isDirty, isValid, isSubmitting, isLoadingConfig, isLoadingEnv,
                 configOps, submitOps, toasts, downloads, versionExpectMap, year, content>>

(* Variant of OnLoadEnvResume that rebuilds the document from the defaults *)
(* around the loaded environment.                                         *)
OnLoadEnvResume_FromDefaults(i) ==
  /\ i \in DOMAIN envOps
  /\ envOps[i].stage = "resolved"
  /\ LET data == envOps[i].result[1]
     IN IF ~data.success
        THEN FailLoadEnv(i, Toast("error", data.message))
        ELSE /\ form' = SetValue(initialConfiguration, "environment", data.data[1])
             /\ toasts' = [toasts EXCEPT !.env = Toast("success", data.message)]
             /\ isLoadingEnv' = FALSE
             /\ envOps' = RemoveAt(envOps, i)
             /\ UNCHANGED <<isDirty, isValid>>
  /\ UNCHANGED <<isSubmitting, isLoadingConfig, configOps, submitOps, downloads,
                 versionExpectMap, year, content>>

(* onLoadEnv after the await. *)
OnLoadEnvResume(i) ==
  /\ i \in DOMAIN envOps
  /\ envOps[i].stage = "resolved"
  /\ LET data == envOps[i].result[1]
     IN IF ~data.success
        THEN FailLoadEnv(i, Toast("error", data.message))
        ELSE /\ form' = SetValue(form, "environment", data.data[1])
             /\ toasts' = [toasts EXCEPT !.env = Toast("success", data.message)]
             /\ isLoadingEnv' = FALSE
             /\ envOps' = RemoveAt(envOps, i)
             /\ UNCHANGED <<isDirty, isValid>>
  /\ UNCHANGED <<isSubmitting, isLoadingConfig, configOps, submitOps, downloads,
                 versionExpectMap, year, content>>

----------------------------------------------------------------------------
(* Generate Configuration.                                                 *)

(* Variant of Submit whose handleSubmit runs onFormSubmit unvalidated. *)
Submit_WithoutResolver ==
  /\ ButtonEnabled(isSubmitting, ~isValid \/ ~isDirty)
  /\ Len(submitOps) < MaxInFlight
  /\ Len(downloads) < MaxDownloads
  /\ isSubmitting' = TRUE
  /\ toasts' = [toasts EXCEPT !.download = Toast("loading", "Generating configuration...")]
  /\ submitOps' = Append(submitOps, [stage |-> "generating", result |-> None])
  /\ UNCHANGED <<form, isDirty, isValid, isLoadingConfig, isLoadingEnv, configOps, envOps,
                 downloads, versionExpectMap, year, content>>

(* Variant of Submit whose button is disabled only while submitting. *)
Submit_AlwaysEnabled ==
  /\ ButtonEnabled(isSubmitting, FALSE)
  /\ Len(submitOps) < MaxInFlight
  /\ Len(downloads) < MaxDownloads
  /\ IF Schema_App_Configuration(form)
     THEN /\ isSubmitting' = TRUE
          /\ toasts' = [toasts EXCEPT !.download = Toast("loading", "Generating configuration...")]
          /\ submitOps' = Append(submitOps, [stage |-> "generating", result |-> None])
          /\ UNCHANGED isValid
     ELSE /\ isValid' = FALSE
          /\ UNCHANGED <<isSubmitting, toasts, submitOps>>
  /\ UNCHANGED <<form, isDirty, isLoadingConfig, isLoadingEnv, configOps, envOps,
                 downloads, versionExpectMap, year, content>>

(* A click on the submit button: form.handleSubmit validates the values    *)
(* with the resolver and, if they pass, runs onFormSubmit up to its await  *)
(* of GenerateConfiguration(values), values being the form values of this  *)
(* moment; the pending call is kept, its argument is not.                  *)
Submit ==
  /\ ButtonEnabled(isSubmitting, ~isValid \/ ~isDirty)
  /\ Len(submitOps) < MaxInFlight
  /\ Len(downloads) < MaxDownloads
  /\ IF Schema_App_Configuration(form)
     THEN /\ isSubmitting' = TRUE
          /\ toasts' = [toasts EXCEPT !.download = Toast("loading", "Generating configuration...")]
          /\ submitOps' = Append(submitOps, [stage |-> "generating", result |-> None])
          /\ UNCHANGED isValid
     ELSE /\ isValid' = FALSE
          /\ UNCHANGED <<isSubmitting, toasts, submitOps>>
  /\ UNCHANGED <<form, isDirty, isLoadingConfig, isLoadingEnv, configOps, envOps,
                 downloads, versionExpectMap, year, content>>

GenerateConfigurationResolves(i, data) ==
  /\ i \in DOMAIN submitOps
  /\ submitOps[i].stage = "generating"
  /\ submitOps' = [submitOps EXCEPT ![i] = [stage |-> "resolved", result |-> Some(data)]]
  /\ UNCHANGED <<form, isDirty, isValid, isSubmitting, isLoadingConfig, isLoadingEnv,
                 configOps, envOps, toasts, downloads, versionExpectMap, year, content>>

(* The server action rejects: handleSubmit ends the submission. *)
GenerateConfigurationRejects(i) ==
  /\ i \in DOMAIN submitOps
  /\ submitOps[i].stage = "generating"
  /\ submitOps' = RemoveAt(submitOps, i)
  /\ isSubmitting' = FALSE
  /\ UNCHANGED <<form, isDirty, isValid, isLoadingConfig, isLoadingEnv,
                 configOps, envOps, toasts, downloads, versionExpectMap, year, content>>

(* The name of the downloaded file, `${Date.now()}-gIndex.config.zip`. *)
StrDownloadSuffix ==
  <<"-", "g", "I", "n", "d", "e", "x", ".", "c", "o", "n", "f", "i", "g", ".", "z", "i", "p">>

(* The values Date.now() can return, in milliseconds. *)
ClockReadings ==
  999..(999 + ClockSpan)

(* The earliest reading; the page as a whole is explored with this one,    *)
(* generation on its own with all of them.                                 *)
FirstReading ==
  CHOOSE r \in ClockReadings : \A q \in ClockReadings : r <= q

(* Variant of OnFormSubmitResume whose download name has no timestamp. *)
OnFormSubmitResume_WithoutTimestamp(i, now) ==
  /\ i \in DOMAIN submitOps
  /\ submitOps[i].stage = "resolved"
  /\ LET data == submitOps[i].result[1]
     IN IF ~data.success
        THEN /\ toasts' = [toasts EXCEPT !.download = Toast("error", data.message)]
             /\ UNCHANGED downloads
        ELSE /\ downloads' = Append(downloads, [download |-> StrDownloadSuffix, at |-> now])
             /\ toasts' = [toasts EXCEPT !.download = Toast("success", "Configuration generated")]
  /\ submitOps' = RemoveAt(submitOps, i)
  /\ isSubmitting' = FALSE
  /\ UNCHANGED <<form, isDirty, isValid, isLoadingConfig, isLoadingEnv,
                 configOps, envOps, versionExpectMap, year, content>>

(* Variant of OnFormSubmitResume that offers the download before looking *)
(* at the result.                                                        *)
OnFormSubmitResume_AlwaysDownloading(i, now) ==
  /\ i \in DOMAIN submitOps
  /\ submitOps[i].stage = "resolved"
  /\ LET data == submitOps[i].result[1]
     IN /\ downloads' = Append(downloads,
                               [download |-> NumberToString(now) \o StrDownloadSuffix,
                                at |-> now])
        /\ toasts' = [toasts EXCEPT !.download =
                        IF data.success THEN Toast("success", "Configuration generated")
                        ELSE Toast("error", data.message)]
  /\ submitOps' = RemoveAt(submitOps, i)
  /\ isSubmitting' = FALSE
  /\ UNCHANGED <<form, isDirty, isValid, isLoadingConfig, isLoadingEnv,
                 configOps, envOps, versionExpectMap, year, content>>

(* onFormSubmit after the await, then the end of handleSubmit; now is what *)
(* Date.now() returns at line 77.  A download is recorded with the name    *)
(* given to a.download and the clock reading it was clicked at.            *)
OnFormSubmitResume(i, now) ==
  /\ i \in DOMAIN submitOps
  /\ submitOps[i].stage = "resolved"
  /\ LET data == submitOps[i].result[1]
     IN IF ~data.success
        THEN /\ toasts' = [toasts EXCEPT !.download = Toast("error", data.message)]
             /\ UNCHANGED downloads
        ELSE /\ downloads' = Append(downloads,
                                    [download |-> NumberToString(now) \o StrDownloadSuffix,
                                     at |-> now])
             /\ toasts' = [toasts EXCEPT !.download = Toast("success", "Configuration generated")]
  /\ submitOps' = RemoveAt(submitOps, i)
  /\ isSubmitting' = FALSE
  /\ UNCHANGED <<form, isDirty, isValid, isLoadingConfig, isLoadingEnv,
                 configOps, envOps, versionExpectMap, year, content>>

----------------------------------------------------------------------------
(* The page.                                                               *)

ConfigFileTexts ==
  { TextX,
    StrVersionColon \o TextSpace \o TextQuoted120,
    StrVersionColon \o TextSpace \o Text999 }

ConfigPickResponses ==
  {PickFailure} \cup {PickSuccess(t) : t \in ConfigFileTexts}

EnvPickResponses ==
  {PickFailure, PickSuccess(TextX)}

Init ==
  /\ form = initialConfiguration
  /\ isDirty = FALSE
  /\ isValid = Schema_App_Configuration(initialConfiguration)
  /\ isSubmitting = FALSE
  /\ isLoadingConfig = FALSE
  /\ isLoadingEnv = FALSE
  /\ configOps = << >>
  /\ envOps = << >>
  /\ submitOps = << >>
  /\ toasts = [config |-> NoToast, env |-> NoToast, download |-> NoToast, reset |-> NoToast]
  /\ downloads = << >>
  /\ versionExpectMap = DisjointVersionTable
  /\ year = 2024
  /\ content = Some(formatFooterContent(initialConfiguration.site.footer,
                                        Some(initialConfiguration.site)))

Next ==
  \/ \E name \in {"site.siteName"} :
       \E value \in FieldInputs(name) : EditField(name, value)
  \/ OnReset("all")
  \/ ClickLoadConfig
  \/ \E i \in DOMAIN configOps, response \in ConfigPickResponses : PickConfigFile(i, response)
  \/ \E i \in DOMAIN configOps : OnLoadConfig(i)
  \/ \E i \in DOMAIN configOps, data \in ProcessConfigurationResults :
       ProcessConfigurationResolves(i, data)
  \/ \E i \in DOMAIN configOps : ProcessConfigurationRejects(i)
  \/ \E i \in DOMAIN configOps : OnLoadConfigResume(i)
  \/ ClickLoadEnv
  \/ \E i \in DOMAIN envOps, response \in EnvPickResponses : PickEnvFile(i, response)
  \/ \E i \in DOMAIN envOps : OnLoadEnv(i)
  \/ \E i \in DOMAIN envOps, data \in ProcessEnvironmentConfigResults :
       ProcessEnvironmentConfigResolves(i, data)
  \/ \E i \in DOMAIN envOps : ProcessEnvironmentConfigRejects(i)
  \/ \E i \in DOMAIN envOps : OnLoadEnvResume(i)
  \/ Submit
  \/ \E i \in DOMAIN submitOps, data \in GenerateConfigurationResults :
       GenerateConfigurationResolves(i, data)
  \/ \E i \in DOMAIN submitOps : GenerateConfigurationRejects(i)
  \/ \E i \in DOMAIN submitOps : OnFormSubmitResume(i, FirstReading)

Spec ==
  Init /\ [][Next]_vars

----------------------------------------------------------------------------
(* SiteForm: the live preview of the site name template.                   *)

StrPercentT ==
  <<"%", "t">>

StrPercentS ==
  <<"%", "s">>

StrNoTemplate ==
  <<"N", "o", " ", "t", "e", "m", "p", "l", "a", "t", "e">>

StrApunteUDA ==
  <<"A", "p", "u", "n", "t", "e", " ", "U", "D", "A">>

StrPageTitle ==
  <<"P", "a", "g", "e", " ", "T", "i", "t", "l", "e", " ", "G", "o", "e", "s", " ", "H", "e", "r", "e">>

TextDollarAmp ==
  <<"$", "&">>

TextDollarDollar ==
  <<"$", "$">>

(* s.indexOf(pattern), counted from 1; 0 when pattern does not occur. *)
RECURSIVE IndexOf(_, _, _)
IndexOf(s, pattern, i) ==
  IF i + Len(pattern) - 1 > Len(s) THEN 0
  ELSE IF SubSeq(s, i, i + Len(pattern) - 1) = pattern THEN i
  ELSE IndexOf(s, pattern, i + 1)

(* GetSubstitution of String.prototype.replace for a string pattern (no    *)
(* capture groups): in the replacement text $$ stands for "$", $& for the  *)
(* matched text, $` for the text before the match and $' for the text      *)
(* after it; every other character stands for itself.                      *)
RECURSIVE GetSubstitution(_, _, _, _, _)
GetSubstitution(replacement, k, matched, before, after) ==
  IF k > Len(replacement) THEN << >>
  ELSE IF replacement[k] = "$" /\ k < Len(replacement)
                               /\ replacement[k + 1] \in {"$", "&", "`", "'"}
  THEN (CASE replacement[k + 1] = "$" -> << "$" >>
          [] replacement[k + 1] = "&" -> matched
          [] replacement[k + 1] = "`" -> before
          [] replacement[k + 1] = "'" -> after)
         \o GetSubstitution(replacement, k + 2, matched, before, after)
  ELSE << replacement[k] >> \o GetSubstitution(replacement, k + 1, matched, before, after)

(* s.replace(pattern, replacement) with a string pattern: the first        *)
(* occurrence only.                                                        *)
StringReplace(s, pattern, replacement) ==
  LET pos == IndexOf(s, pattern, 1)
      before == SubSeq(s, 1, pos - 1)
      after == SubSeq(s, pos + Len(pattern), Len(s))
  IN IF pos = 0 THEN s
     ELSE before \o GetSubstitution(replacement, 1, pattern, before, after) \o after

(* The text of the preview, as rendered from the watched form values. *)
SiteNamePreview ==
  StringReplace(
    StringReplace(Nullish(form.site.siteNameTemplate, StrNoTemplate),
                  StrPercentT, Nullish(form.site.siteName, StrApunteUDA)),
    StrPercentS, StrPageTitle)

----------------------------------------------------------------------------
(* Specification of the formatter alone: the footer lines and the site     *)
(* settings are drawn from bounded sets of strings, the preview is not yet *)
(* mounted.                                                                *)

RECURSIVE Concats(_, _)
Concats(pieces, n) ==
  IF n = 0 THEN {<< >>}
  ELSE LET shorter == Concats(pieces, n - 1)
       IN shorter \cup {p \o q : p \in pieces, q \in shorter}

FooterAlphabets ==
  { {TextBuiltBy, TextCreatorToken, TextYearToken, TextSpace},
    {TextAuthorToken, TextSiteNameToken, TextHandleToken, TextDash},
    {TextFooToken, TextProtoToken, TextVersionToken, TextYearToken},
    {TextPoweredByToken, TextRepositoryToken, TextDash},
    {TextOpen, TextYearWord, TextClose, TextSpace} }

FooterTexts(pieces) ==
  UNION {[1..n -> [value : Concats(pieces, MaxPieces)]] : n \in 0..MaxLines}

FooterSites ==
  { [config.siteConfig EXCEPT !.siteAuthor = a[1], !.siteName = a[2], !.twitterHandle = a[3]] :
      a \in { <<Some(TextAnn), Some(TextMyIndex), Some(TextAtAnn)>>,
              <<None, None, None>>,
              <<Some(<< >>), None, Some(TextYearToken)>>,
              <<Some(TextYearToken), Some(<< >>), None>> } }

InitFooter ==
  /\ \E pieces \in FooterAlphabets, site \in FooterSites :
       \E text \in FooterTexts(pieces) :
         form = [initialConfiguration EXCEPT !.site = [site EXCEPT !.footer = text]]
  /\ isDirty = FALSE
  /\ isValid = TRUE
  /\ isSubmitting = FALSE
  /\ isLoadingConfig = FALSE
  /\ isLoadingEnv = FALSE
  /\ configOps = << >>
  /\ envOps = << >>
  /\ submitOps = << >>
  /\ toasts = [config |-> NoToast, env |-> NoToast, download |-> NoToast, reset |-> NoToast]
  /\ downloads = << >>
  /\ versionExpectMap = DisjointVersionTable
  /\ year \in 2024..(2024 + YearSpan)
  /\ content = None

NextFooter ==
  MountFooterField

SpecFooter ==
  InitFooter /\ [][NextFooter]_vars

----------------------------------------------------------------------------
(* Specification of the config load alone: the picked file ranges over a   *)
(* bounded set of texts, the static version table over the candidate       *)
(* tables.                                                                 *)

VersionPieces ==
  {StrVersionColon, TextSpace, TextQuoted120, Text120, Text200, TextX, TextOne, TextQuote}

VersionFileTexts ==
  Concats(VersionPieces, MaxTextPieces)

InitVersion ==
  /\ form = initialConfiguration
  /\ isDirty = FALSE
  /\ isValid = Schema_App_Configuration(initialConfiguration)
  /\ isSubmitting = FALSE
  /\ isLoadingConfig = FALSE
  /\ isLoadingEnv = FALSE
  /\ configOps = << >>
  /\ envOps = << >>
  /\ submitOps = << >>
  /\ toasts = [config |-> NoToast, env |-> NoToast, download |-> NoToast, reset |-> NoToast]
  /\ downloads = << >>
  /\ versionExpectMap \in VersionTables
  /\ year = 2024
  /\ content = Some(formatFooterContent(initialConfiguration.site.footer,
                                        Some(initialConfiguration.site)))

NextVersion ==
  \/ ClickLoadConfig
  \/ \E i \in DOMAIN configOps :
       \E response \in {PickFailure} \cup {PickSuccess(t) : t \in VersionFileTexts} :
         PickConfigFile(i, response)
  \/ \E i \in DOMAIN configOps : OnLoadConfig(i)
  \/ \E i \in DOMAIN configOps, data \in ProcessConfigurationResults :
       ProcessConfigurationResolves(i, data)
  \/ \E i \in DOMAIN configOps : ProcessConfigurationRejects(i)
  \/ \E i \in DOMAIN configOps : OnLoadConfigResume(i)

SpecVersion ==
  InitVersion /\ [][NextVersion]_vars

----------------------------------------------------------------------------
(* Specification of the site name inputs alone: the user types into the    *)
(* Site Name and Site Name Template inputs, the preview follows.           *)

SiteNamePieces ==
  {TextAnn, StrPercentS, TextDollarAmp, TextDollarDollar}

TemplatePieces ==
  {StrPercentT, StrPercentS, TextDash}

InitSiteName ==
  /\ form = initialConfiguration
  /\ isDirty = FALSE
  /\ isValid = Schema_App_Configuration(initialConfiguration)
  /\ isSubmitting = FALSE
  /\ isLoadingConfig = FALSE
  /\ isLoadingEnv = FALSE
  /\ configOps = << >>
  /\ envOps = << >>
  /\ submitOps = << >>
  /\ toasts = [config |-> NoToast, env |-> NoToast, download |-> NoToast, reset |-> NoToast]
  /\ downloads = << >>
  /\ versionExpectMap = DisjointVersionTable
  /\ year = 2024
  /\ content = Some(formatFooterContent(initialConfiguration.site.footer,
                                        Some(initialConfiguration.site)))

NextSiteName ==
  \/ \E value \in Concats(SiteNamePieces, MaxNamePieces) :
       EditField("site.siteName", Some(value))
  \/ \E value \in Concats(TemplatePieces, MaxNamePieces) :
       EditField("site.siteNameTemplate", Some(value))

SpecSiteName ==
  InitSiteName /\ [][NextSiteName]_vars

----------------------------------------------------------------------------
(* Specification of an editing session: field edits, list appends and      *)
(* removes, field and section resets, Reset All, and config loads of a     *)
(* file that migrates.                                                     *)

ListNames ==
  {"site.navbarItems", "site.supports", "site.footer"}

ResettableFields ==
  {"site.siteName", "site.navbarItems", "site.supports", "site.footer"}

Categories ==
  {"site", "api", "environment"}

(* What the inputs of the api and environment sections can leave behind. *)
SectionInputs(name) ==
  CASE name = "api" -> {"api-edited"}
    [] name = "environment" -> {"env-edited"}
    [] name = "site.siteName" -> {Some(TextMyIndex)}

InitEdit ==
  /\ form = initialConfiguration
  /\ isDirty = FALSE
  /\ isValid = Schema_App_Configuration(initialConfiguration)
  /\ isSubmitting = FALSE
  /\ isLoadingConfig = FALSE
  /\ isLoadingEnv = FALSE
  /\ configOps = << >>
  /\ envOps = << >>
  /\ submitOps = << >>
  /\ toasts = [config |-> NoToast, env |-> NoToast, download |-> NoToast, reset |-> NoToast]
  /\ downloads = << >>
  /\ versionExpectMap = DisjointVersionTable
  /\ year = 2024
  /\ content = Some(formatFooterContent(initialConfiguration.site.footer,
                                        Some(initialConfiguration.site)))

NextEdit ==
  \/ \E name \in {"api", "environment", "site.siteName"} :
       \E value \in SectionInputs(name) : EditField(name, value)
  \/ \E name \in ListNames : AppendItem(name)
  \/ \E name \in ListNames : \E index \in 1..MaxItems : RemoveItem(name, index)
  \/ \E name \in ResettableFields : ResetField(name)
  \/ \E category \in Categories \cup {"all"} : OnReset(category)
  \/ ClickLoadConfig
  \/ \E i \in DOMAIN configOps :
       PickConfigFile(i, PickSuccess(StrVersionColon \o TextSpace \o TextQuoted120))
  \/ \E i \in DOMAIN configOps : OnLoadConfig(i)
  \/ \E i \in DOMAIN configOps :
       ProcessConfigurationResolves(i, ActionSuccess("Configuration loaded",
                                                     [api |-> "api-loaded", site |-> LoadedSite]))
  \/ \E i \in DOMAIN configOps : OnLoadConfigResume(i)

SpecEdit ==
  InitEdit /\ [][NextEdit]_vars

----------------------------------------------------------------------------
(* Specification of generation: the site name is edited, a config file is  *)
(* loaded whose migration may give a site the schema rejects, the form is  *)
(* reset and submitted, the archive is delivered at some clock reading.    *)

(* A migrated site without a site name. *)
NamelessSite ==
  [LoadedSite EXCEPT !.siteName = Some(<< >>)]

InitSubmit ==
  /\ form = initialConfiguration
  /\ isDirty = FALSE
  /\ isValid = Schema_App_Configuration(initialConfiguration)
  /\ isSubmitting = FALSE
  /\ isLoadingConfig = FALSE
  /\ isLoadingEnv = FALSE
  /\ configOps = << >>
  /\ envOps = << >>
  /\ submitOps = << >>
  /\ toasts = [config |-> NoToast, env |-> NoToast, download |-> NoToast, reset |-> NoToast]
  /\ downloads = << >>
  /\ versionExpectMap = DisjointVersionTable
  /\ year = 2024
  /\ content = Some(formatFooterContent(initialConfiguration.site.footer,
                                        Some(initialConfiguration.site)))

NextSubmit ==
  \/ \E value \in FieldInputs("site.siteName") : EditField("site.siteName", value)
  \/ OnReset("all")
  \/ ClickLoadConfig
  \/ \E i \in DOMAIN configOps :
       PickConfigFile(i, PickSuccess(StrVersionColon \o TextSpace \o TextQuoted120))
  \/ \E i \in DOMAIN configOps : OnLoadConfig(i)
  \/ \E i \in DOMAIN configOps, site \in {LoadedSite, NamelessSite} :
       ProcessConfigurationResolves(i, ActionSuccess("Configuration loaded",
                                                     [api |-> "api-loaded", site |-> site]))
  \/ \E i \in DOMAIN configOps : OnLoadConfigResume(i)
  \/ Submit
  \/ \E i \in DOMAIN submitOps, data \in GenerateConfigurationResults :
       GenerateConfigurationResolves(i, data)
  \/ \E i \in DOMAIN submitOps : GenerateConfigurationRejects(i)
  \/ \E i \in DOMAIN submitOps, now \in ClockReadings : OnFormSubmitResume(i, now)

SpecSubmit ==
  InitSubmit /\ [][NextSubmit]_vars

----------------------------------------------------------------------------
(* Specification of the two loads with the progress the runtime gives:     *)
(* a started onLoadConfig or onLoadEnv runs to its await or its return, a  *)
(* called server action settles (it resolves or rejects) and the function  *)
(* then resumes.  Nothing makes the file picker call back.                 *)

InitLoads ==
  /\ form = initialConfiguration
  /\ isDirty = FALSE
  /\ isValid = Schema_App_Configuration(initialConfiguration)
  /\ isSubmitting = FALSE
  /\ isLoadingConfig = FALSE
  /\ isLoadingEnv = FALSE
  /\ configOps = << >>
  /\ envOps = << >>
  /\ submitOps = << >>
  /\ toasts = [config |-> NoToast, env |-> NoToast, download |-> NoToast, reset |-> NoToast]
  /\ downloads = << >>
  /\ versionExpectMap = DisjointVersionTable
  /\ year = 2024
  /\ content = Some(formatFooterContent(initialConfiguration.site.footer,
                                        Some(initialConfiguration.site)))

ProcessConfigurationSettles(i) ==
  \/ \E data \in ProcessConfigurationResults : ProcessConfigurationResolves(i, data)
  \/ ProcessConfigurationRejects(i)

ProcessEnvironmentConfigSettles(i) ==
  \/ \E data \in ProcessEnvironmentConfigResults : ProcessEnvironmentConfigResolves(i, data)
  \/ ProcessEnvironmentConfigRejects(i)

NextLoads ==
  \/ ClickLoadConfig
  \/ \E i \in DOMAIN configOps, response \in ConfigPickResponses : PickConfigFile(i, response)
  \/ \E i \in DOMAIN configOps : OnLoadConfig(i)
  \/ \E i \in DOMAIN configOps : ProcessConfigurationSettles(i)
  \/ \E i \in DOMAIN configOps : OnLoadConfigResume(i)
  \/ ClickLoadEnv
  \/ \E i \in DOMAIN envOps, response \in EnvPickResponses : PickEnvFile(i, response)
  \/ \E i \in DOMAIN envOps : OnLoadEnv(i)
  \/ \E i \in DOMAIN envOps : ProcessEnvironmentConfigSettles(i)
  \/ \E i \in DOMAIN envOps : OnLoadEnvResume(i)

FairLoads ==
  \A i \in 1..MaxInFlight :
    /\ WF_vars(OnLoadConfig(i))
    /\ WF_vars(ProcessConfigurationSettles(i))
    /\ WF_vars(OnLoadConfigResume(i))
    /\ WF_vars(OnLoadEnv(i))
    /\ WF_vars(ProcessEnvironmentConfigSettles(i))
    /\ WF_vars(OnLoadEnvResume(i))

SpecLoads ==
  InitLoads /\ [][NextLoads]_vars /\ FairLoads

----------------------------------------------------------------------------
(* Specification of the footer preview: the footer field mounts, then the  *)
(* user edits the site name and the footer lines, appends and removes      *)
(* footer lines, resets, loads a config file and reloads the preview.      *)

(* What the user types into a footer line. *)
FooterLineInputs ==
  {TextSiteNameToken}

InitPreview ==
  /\ form = initialConfiguration
  /\ isDirty = FALSE
  /\ isValid = Schema_App_Configuration(initialConfiguration)
  /\ isSubmitting = FALSE
  /\ isLoadingConfig = FALSE
  /\ isLoadingEnv = FALSE
  /\ configOps = << >>
  /\ envOps = << >>
  /\ submitOps = << >>
  /\ toasts = [config |-> NoToast, env |-> NoToast, download |-> NoToast, reset |-> NoToast]
  /\ downloads = << >>
  /\ versionExpectMap = DisjointVersionTable
  /\ year = 2024
  /\ content = None

(* The controls of the page exist once it has mounted. *)
NextPreview ==
  \/ MountFooterField
  \/ /\ content # None
     /\ \/ ReloadPreview
        \/ \E value \in FieldInputs("site.siteName") : EditField("site.siteName", value)
        \/ \E index \in DOMAIN form.site.footer, value \in FooterLineInputs :
             EditField("site.footer",
                       [form.site.footer EXCEPT ![index] = [value |-> value]])
        \/ AppendItem("site.footer")
        \/ \E index \in 1..MaxItems : RemoveItem("site.footer", index)
        \/ ResetField("site.footer")
        \/ OnReset("all")
        \/ ClickLoadConfig
        \/ \E i \in DOMAIN configOps :
             PickConfigFile(i, PickSuccess(StrVersionColon \o TextSpace \o TextQuoted120))
        \/ \E i \in DOMAIN configOps : OnLoadConfig(i)
        \/ \E i \in DOMAIN configOps :
             ProcessConfigurationResolves(i, ActionSuccess("Configuration loaded",
                                                           [api |-> "api-loaded", site |-> LoadedSite]))
        \/ \E i \in DOMAIN configOps : OnLoadConfigResume(i)

SpecPreview ==
  InitPreview /\ [][NextPreview]_vars

----------------------------------------------------------------------------
(* Properties of the load operations (checked under Spec).                 *)

(* The step merges the successful result of config load i into the form. *)
ConfigMergeStep(i) ==
  /\ configOps[i].stage = "resolved"
  /\ configOps[i].result[1].success
  /\ configOps' = RemoveAt(configOps, i)

EnvMergeStep(i) ==
  /\ envOps[i].stage = "resolved"
  /\ envOps[i].result[1].success
  /\ envOps' = RemoveAt(envOps, i)

(* C1: a failed load never changes the document: every step of a config   *)
(* load or an env load other than the merge of a successful result (the    *)
(* click, the file pick, each error return, a rejected server action)      *)
(* leaves site, api and environment as they were.                          *)
C1_FailedLoadLeavesDocument ==
  [][ ( \/ (configOps' # configOps /\ ~(\E i \in DOMAIN configOps : ConfigMergeStep(i)))
        \/ (envOps' # envOps /\ ~(\E i \in DOMAIN envOps : EnvMergeStep(i))) )
      => form' = form ]_vars

C1_Witness ==
  /\ toasts.config = VersionToast("error", "Version not recognized", Text999)
  /\ toasts.env = Toast("error", "Failed to parse environment")
  /\ configOps = << >>
  /\ envOps = << >>
  /\ form.site = LoadedSite
  /\ form.environment = "env-loaded"

(* C2: a successful config load sets api and site to the migrated result   *)
(* and leaves environment; a successful env load sets environment to the   *)
(* parsed result and leaves api and site.                                  *)
C2_SuccessfulLoadReplacesTargets ==
  [][ /\ \A i \in DOMAIN configOps :
           ConfigMergeStep(i) =>
             form' = [site |-> configOps[i].result[1].data[1].site,
                      api |-> configOps[i].result[1].data[1].api,
                      environment |-> form.environment]
      /\ \A i \in DOMAIN envOps :
           EnvMergeStep(i) =>
             form' = [site |-> form.site,
                      api |-> form.api,
                      environment |-> envOps[i].result[1].data[1]] ]_vars

C2_Witness ==
  /\ toasts.config = Toast("success", "Configuration loaded")
  /\ toasts.env = Toast("success", "Environment loaded")
  /\ form = [site |-> LoadedSite, api |-> "api-loaded", environment |-> "env-loaded"]

(* C3 as stated: at most one operation among load-config, load-env and     *)
(* generate is in flight.                                                  *)
C3_AtMostOneOperationInFlight ==
  Len(configOps) + Len(envOps) + Len(submitOps) <= 1

(* C3, amended: at most one config load and at most one env load is in     *)
(* flight, and each is in flight only while its own flag is raised; loads  *)
(* of the two kinds and a generation can overlap.                          *)
C3_AtMostOneLoadOfEachKind ==
  /\ Len(configOps) <= 1
  /\ Len(envOps) <= 1
  /\ Len(configOps) = 1 => isLoadingConfig
  /\ Len(envOps) = 1 => isLoadingEnv

C3_Witness ==
  /\ Len(configOps) = 1
  /\ Len(envOps) = 1
  /\ Len(submitOps) = 1
  /\ configOps[1].stage = "processing"

----------------------------------------------------------------------------
(* Properties of version detection and classification (SpecVersion).       *)

(* OnLoadConfig runs for operation i, whose file pick succeeded. *)
DetectionStep(i) ==
  /\ configOps[i].stage = "picked"
  /\ configOps[i].response.success
  /\ \/ configOps' = RemoveAt(configOps, i)
     \/ (i \in DOMAIN configOps' /\ configOps'[i].stage = "processing")

ProcessConfigurationCalled(i) ==
  i \in DOMAIN configOps' /\ configOps'[i].stage = "processing"

IsSemver(v) ==
  \E p \in 2..Len(v) :
    /\ v[p] = "."
    /\ \E q \in (p + 2)..(Len(v) - 1) :
         /\ v[q] = "."
         /\ \A k \in (1..Len(v)) \ {p, q} : v[k] \in Digits

(* At position k of t stands `version:`, then white space, then at most    *)
(* one quote, then the literal v, which no further digit follows.          *)
AssignmentAt(t, k, v) ==
  /\ k + 7 <= Len(t)
  /\ SubSeq(t, k, k + 7) = StrVersionColon
  /\ \E w \in (k + 8)..(Len(t) + 1) :
       /\ \A j \in (k + 8)..(w - 1) : t[j] \in WhiteSpace
       /\ \E b \in {w, w + 1} :
            /\ b = w + 1 => (w <= Len(t) /\ t[w] \in {"\"", "'"})
            /\ b + Len(v) - 1 <= Len(t)
            /\ SubSeq(t, b, b + Len(v) - 1) = v
            /\ (b + Len(v) <= Len(t) => t[b + Len(v)] \notin Digits)

(* The semantic-version literals a `version:` at position k assigns. *)
HasAssignmentAt(t, k) ==
  \E b \in 1..Len(t), e \in 1..Len(t) :
    /\ k + 8 <= b
    /\ b + 4 <= e
    /\ IsSemver(SubSeq(t, b, e))
    /\ AssignmentAt(t, k, SubSeq(t, b, e))

ContainsVersionToken(t) ==
  \E k \in 1..Len(t) : k + 7 <= Len(t) /\ SubSeq(t, k, k + 7) = StrVersionColon

VersionNotFoundToast ==
  Toast("error", "Version not found in configuration file")

(* C4: the detected version is the digits.digits.digits literal of the     *)
(* first `version:` assignment that carries one; when the text has no such *)
(* assignment, and so for every text without a `version:` token, the load  *)
(* ends with "Version not found in configuration file" and                 *)
(* ProcessConfiguration is not called.                                     *)
C4_VersionDetection ==
  [][ \A i \in DOMAIN configOps :
        DetectionStep(i) =>
          LET t == configOps[i].response.data[1]
              found == \E k \in 1..Len(t) : HasAssignmentAt(t, k)
          IN /\ ~found => /\ toasts'.config = VersionNotFoundToast
                          /\ ~ProcessConfigurationCalled(i)
             /\ found => /\ toasts'.config.version # None
                         /\ IsSemver(toasts'.config.version[1])
                         /\ \E k \in 1..Len(t) :
                              /\ AssignmentAt(t, k, toasts'.config.version[1])
                              /\ \A k2 \in 1..(k - 1) : ~HasAssignmentAt(t, k2)
             /\ ~ContainsVersionToken(t) => ~found
             /\ t = StrVersionColon \o TextSpace \o TextQuoted120 =>
                  toasts'.config.version = Some(Text120) ]_vars

C4_Witness ==
  /\ Len(configOps) = 1
  /\ configOps[1].stage = "processing"
  /\ configOps[1].response.data = Some(StrVersionColon \o TextSpace \o TextQuoted120)
  /\ configOps[1].loadedVersion = Some(Text120)

GroupsContaining(version) ==
  {g \in DOMAIN versionExpectMap : version \in versionExpectMap[g]}

(* C5: a detected version goes to ProcessConfiguration with a group whose  *)
(* list contains exactly that version string ("1.2.0" in v1 gives "v1");   *)
(* a version contained in no group ends the load with "Version not         *)
(* recognized" and ProcessConfiguration is not called.                     *)
C5_VersionClassification ==
  [][ \A i \in DOMAIN configOps :
        (DetectionStep(i) /\ toasts'.config.version # None) =>
          LET v == toasts'.config.version[1]
          IN /\ GroupsContaining(v) = {} =>
                  /\ toasts'.config = VersionToast("error", "Version not recognized", v)
                  /\ ~ProcessConfigurationCalled(i)
             /\ GroupsContaining(v) # {} =>
                  /\ ProcessConfigurationCalled(i)
                  /\ configOps'[i].versionGroup # None
                  /\ configOps'[i].versionGroup[1] \in GroupsContaining(v)
                  /\ configOps'[i].loadedVersion = Some(v)
             /\ v = Text120 => configOps'[i].versionGroup = Some("v1") ]_vars

C5_Witness ==
  /\ configOps = << >>
  /\ toasts.config = VersionToast("error", "Version not recognized", Text120 \o TextOne)

(* C6: ProcessConfiguration is called only for a version that belongs to   *)
(* exactly one group; a version listed in several groups fails the load.   *)
C6_AmbiguousVersionFails ==
  \A i \in DOMAIN configOps :
    configOps[i].stage = "processing" =>
      Cardinality(GroupsContaining(configOps[i].loadedVersion[1])) = 1

----------------------------------------------------------------------------
(* Properties of the footer template formatter (checked under SpecFooter). *)

(* The footer lines as formatFooterContent sees them before substitution. *)
JoinedFooter ==
  Join([i \in DOMAIN form.site.footer |-> Trim(form.site.footer[i].value)], << "\n" >>)

OwnKeys ==
  {StrYear, StrRepository, StrPoweredBy, StrAuthor, StrVersion, StrSiteName,
   StrHandle, StrCreator}

(* Every occurrence of a {{ key }} token in s, wherever it starts. *)
TokenStarts(s) ==
  {i \in 1..Len(s) : TokenAt(s, i).ok}

(* s with each occurrence in starts replaced by values[key] ("" for a key  *)
(* outside the table), the text in between kept.                           *)
RECURSIVE Substituted(_, _, _, _)
Substituted(s, from, starts, values) ==
  IF starts = {} THEN SubSeq(s, from, Len(s))
  ELSE LET i == CHOOSE x \in starts : \A y \in starts : x <= y
           m == TokenAt(s, i)
       IN SubSeq(s, from, i - 1)
            \o (IF m.key \in DOMAIN values THEN values[m.key] ELSE << >>)
            \o Substituted(s, m.next, starts \ {i}, values)

(* C7: every {{ key }} token whose key is not one of the eight keys of the *)
(* lookup table is replaced by the empty string (the tokens of the eight   *)
(* keys by their values).                                                  *)
C7_UnknownKeyRendersEmpty ==
  content # None =>
    LET j == JoinedFooter
    IN content[1] = Substituted(j, 1, TokenStarts(j), formatMap(form.site))

ExampleFooter ==
  << [value |-> TextBuiltBy \o TextCreatorToken], [value |-> TextYearToken] >>

ExampleOutput ==
  <<"B", "u", "i", "l", "t", " ", "b", "y", " ", "m", "b", "a", "h", "a", "r", "i", "p", "\n", "2", "0", "2", "4">>

(* s without its leading and trailing white space: from its first to its   *)
(* last character that is not white space.                                 *)
TrimOf(s) ==
  LET solid == {k \in 1..Len(s) : s[k] \notin WhiteSpace}
  IN IF solid = {} THEN << >>
     ELSE SubSeq(s, CHOOSE a \in solid : \A k \in solid : a <= k,
                    CHOOSE b \in solid : \A k \in solid : k <= b)

RECURSIVE TotalLen(_, _)
TotalLen(strs, n) ==
  IF n = 0 THEN 0 ELSE Len(strs[n]) + TotalLen(strs, n - 1)

(* j is the lines of text, trimmed, in their order, one "\n" between two. *)
IsJoinOfTrimmed(j, text) ==
  LET n == Len(text)
      t == [k \in 1..n |-> TrimOf(text[k].value)]
      off(k) == TotalLen(t, k - 1) + (k - 1)
  IN /\ Len(j) = (IF n = 0 THEN 0 ELSE TotalLen(t, n) + (n - 1))
     /\ \A k \in 1..n :
          /\ SubSeq(j, off(k) + 1, off(k) + Len(t[k])) = t[k]
          /\ k < n => j[off(k) + Len(t[k]) + 1] = "\n"

AllKeysKnown(s) ==
  \A i \in TokenStarts(s) : TokenAt(s, i).key \in OwnKeys

(* C8: the result is the trimmed lines joined by newlines in their order,  *)
(* with every occurrence of a known {{ key }} token replaced by its value; *)
(* the example of the specification renders as stated.                     *)
C8_TrimJoinReplace ==
  content # None =>
    LET j == JoinedFooter
    IN /\ (form.site.footer = ExampleFooter /\ year = 2024) => content[1] = ExampleOutput
       /\ IsJoinOfTrimmed(j, form.site.footer)
       /\ AllKeysKnown(j) =>
            content[1] = Substituted(j, 1, TokenStarts(j), formatMap(form.site))

C8_Witness ==
  /\ form.site.footer = ExampleFooter
  /\ year = 2024
  /\ content = Some(ExampleOutput)

SingleLine(line) ==
  << [value |-> line] >>

(* C10: the tokens author, siteName and handle render the site's           *)
(* siteAuthor, siteName and twitterHandle, and the built-in default when   *)
(* the field is absent.                                                    *)
C10_SiteFieldsWithDefaults ==
  content # None =>
    /\ form.site.footer = SingleLine(TextAuthorToken) =>
         content[1] = (IF form.site.siteAuthor = None THEN DefaultAuthor
                       ELSE form.site.siteAuthor[1])
    /\ form.site.footer = SingleLine(TextSiteNameToken) =>
         content[1] = (IF form.site.siteName = None THEN DefaultSiteName
                       ELSE form.site.siteName[1])
    /\ form.site.footer = SingleLine(TextHandleToken) =>
         content[1] = (IF form.site.twitterHandle = None THEN DefaultHandle
                       ELSE form.site.twitterHandle[1])

C10_Witness ==
  /\ form.site.footer = SingleLine(TextHandleToken)
  /\ form.site.twitterHandle = None
  /\ content = Some(DefaultHandle)

----------------------------------------------------------------------------
(* Properties of the footer tokens (checked under SpecFooter).             *)

(* C11 as stated: the keys whose token renders to a non-empty value are    *)
(* the eight keys of the lookup table and no other, and every code of the  *)
(* footer guide is one of the eight.                                       *)
C11_TokenSetIsTheTable ==
  /\ {templates[k] : k \in DOMAIN templates} \subseteq OwnKeys
  /\ DOMAIN formatMap(form.site) = OwnKeys
  /\ content # None =>
       LET j == JoinedFooter
       IN \A i \in TokenStarts(j) :
            Replacer(formatMap(form.site), TokenAt(j, i).key) # << >>
              => TokenAt(j, i).key \in OwnKeys

----------------------------------------------------------------------------
(* Properties of the site name preview (checked under SpecSiteName).       *)

(* template with its first %t replaced by name and its first %s replaced   *)
(* by title, each taken as it is; the rest of template is kept.            *)
FirstOccurrencesReplaced(template, name, title) ==
  LET t == IndexOf(template, StrPercentT, 1)
      s == IndexOf(template, StrPercentS, 1)
      first == IF t = 0 THEN s ELSE IF s = 0 THEN t ELSE IF t < s THEN t ELSE s
      second == IF t = 0 \/ s = 0 THEN 0 ELSE IF t < s THEN s ELSE t
      valueAt(i) == IF i = t THEN name ELSE title
  IN IF first = 0 THEN template
     ELSE IF second = 0
     THEN SubSeq(template, 1, first - 1) \o valueAt(first)
            \o SubSeq(template, first + 2, Len(template))
     ELSE SubSeq(template, 1, first - 1) \o valueAt(first)
            \o SubSeq(template, first + 2, second - 1) \o valueAt(second)
            \o SubSeq(template, second + 2, Len(template))

(* C12 as stated: the preview is the template with only its first %t       *)
(* replaced by the site name and only its first %s by the page title, both *)
(* taken literally; further occurrences stay as they are.                  *)
C12_PreviewReplacesFirstOccurrences ==
  SiteNamePreview =
    FirstOccurrencesReplaced(Nullish(form.site.siteNameTemplate, StrNoTemplate),
                             Nullish(form.site.siteName, StrApunteUDA),
                             StrPageTitle)

----------------------------------------------------------------------------
(* Properties of an editing session (checked under SpecEdit).              *)

(* C13: for each of the three lists and for every content it holds,        *)
(* appending an item and then removing the item at the last position gives *)
(* the list as it was before, same items in the same order.                *)
C13_AppendThenRemoveLastRestores ==
  [][ \A name \in ListNames :
        AppendItem(name) =>
          removeArrayAt(GetValue(form', name), Len(GetValue(form', name)))
            = GetValue(form, name) ]_vars

C13_Witness ==
  /\ form.site.navbarItems = appendAt(LoadedSite.navbarItems, NewItem("site.navbarItems"))
  /\ form.site.supports = << >>
  /\ form.site.footer = appendAt(config.siteConfig.footer, NewItem("site.footer"))

FieldPaths ==
  {"api", "environment", "site.siteName", "site.siteNameTemplate", "site.siteAuthor",
   "site.twitterHandle", "site.navbarItems", "site.supports", "site.footer"}

(* The field paths a reset of name covers. *)
PathsUnder(name) ==
  IF name = "site" THEN FieldPaths \ {"api", "environment"} ELSE {name}

(* The step sets the part name of the document to its default and leaves   *)
(* every other field as it was.                                            *)
ResetsExactly(name) ==
  \A path \in FieldPaths :
    GetValue(form', path) = IF path \in PathsUnder(name)
                            THEN GetValue(initialConfiguration, path)
                            ELSE GetValue(form, path)

(* C14: resetting one field or one section sets exactly that part of the   *)
(* document to its default value and leaves every other field unchanged.   *)
C14_ResetTouchesOnlyItsPart ==
  [][ /\ \A name \in ResettableFields : ResetField(name) => ResetsExactly(name)
      /\ \A category \in Categories : OnReset(category) => ResetsExactly(category) ]_vars

C14_Witness ==
  /\ toasts.reset.type = "success"
  /\ toasts.config.type = "success"
  /\ form.site = initialConfiguration.site
  /\ form.api = "api-loaded"
  /\ form.environment = "env-edited"

(* C15: Reset All returns site, api and environment to                     *)
(* initialConfiguration whatever came before, and a Reset All on the       *)
(* document it leaves changes nothing.                                     *)
C15_ResetAllRestoresDefaults ==
  [][ OnReset("all") =>
        /\ form' = initialConfiguration
        /\ form = initialConfiguration => form' = form ]_vars

C15_Witness ==
  /\ toasts.reset.type = "success"
  /\ toasts.config.type = "success"
  /\ form = initialConfiguration
  /\ ~isDirty

(* C19: after a successful config load navbarItems, supports and footer of *)
(* the document are the lists the migration returned, item for item in the *)
(* same order; nothing of the lists held before is left.                   *)
C19_LoadedListsReplaceHeldLists ==
  [][ \A i \in DOMAIN configOps :
        ConfigMergeStep(i) =>
          LET site == configOps[i].result[1].data[1].site
          IN /\ form'.site.navbarItems = site.navbarItems
             /\ form'.site.supports = site.supports
             /\ form'.site.footer = site.footer ]_vars

C19_Witness ==
  /\ toasts.config = Toast("success", "Configuration loaded")
  /\ toasts.reset = NoToast
  /\ isDirty
  /\ form.site = LoadedSite

----------------------------------------------------------------------------
(* Properties of the notifications and the download (checked under Spec).  *)

(* The step ends generation i with a delivered archive. *)
DeliveryStep(i) ==
  /\ submitOps[i].stage = "resolved"
  /\ submitOps[i].result[1].success
  /\ submitOps' = RemoveAt(submitOps, i)

(* C16 as stated: every step that ends a config load, an env load or a     *)
(* generation other than with its success leaves an error notification     *)
(* under the operation's toast id, in place of the loading one, and leaves *)
(* the operation's trigger usable.                                         *)
C16_FailureEndsWithErrorToast ==
  [][ /\ (Len(configOps') < Len(configOps) /\ ~(\E i \in DOMAIN configOps : ConfigMergeStep(i)))
         => (toasts'.config.type = "error" /\ ~isLoadingConfig')
      /\ (Len(envOps') < Len(envOps) /\ ~(\E i \in DOMAIN envOps : EnvMergeStep(i)))
         => (toasts'.env.type = "error" /\ ~isLoadingEnv')
      /\ (Len(submitOps') < Len(submitOps) /\ ~(\E i \in DOMAIN submitOps : DeliveryStep(i)))
         => (toasts'.download.type = "error" /\ ~isSubmitting') ]_vars

----------------------------------------------------------------------------
(* Properties of generation (checked under SpecSubmit).                    *)

(* C17 as stated: the archive is delivered under the name                  *)
(* <timestamp>-config.zip, the timestamp being the clock reading at        *)
(* delivery.                                                               *)
C17_NameIsTimestampConfigZip ==
  \A k \in DOMAIN downloads :
    downloads[k].download
      = NumberToString(downloads[k].at) \o <<"-", "c", "o", "n", "f", "i", "g", ".", "z", "i", "p">>

(* C17, amended: the archive is delivered under the name                   *)
(* <timestamp>-gIndex.config.zip, the timestamp being what Date.now()      *)
(* returns (milliseconds) at delivery.                                     *)
C17_NameIsTimestampGIndexConfigZip ==
  \A k \in DOMAIN downloads :
    downloads[k].download
      = NumberToString(downloads[k].at)
          \o <<"-", "g", "I", "n", "d", "e", "x", ".">>
          \o <<"c", "o", "n", "f", "i", "g", ".", "z", "i", "p">>

C17_Witness ==
  /\ Len(downloads) = 1
  /\ downloads[1].at = 1000
  /\ toasts.download = Toast("success", "Configuration generated")

(* C18: a submit reaches onFormSubmit, and with it GenerateConfiguration,  *)
(* only with a document that passes Schema_App_Configuration, also when    *)
(* the document came from a load or a reset.                               *)
C18_GenerateOnlyValidDocument ==
  [][ Len(submitOps') > Len(submitOps) => Schema_App_Configuration(form) ]_vars

C18_Witness ==
  /\ Len(submitOps) = 1
  /\ submitOps[1].stage = "generating"
  /\ form.site = LoadedSite
  /\ toasts.config.type = "success"

----------------------------------------------------------------------------
(* Properties of the progress of a load (checked under SpecLoads).         *)

(* C20 as stated: whenever a loading flag is raised it is eventually       *)
(* lowered again, whatever the file picker and the server action do.       *)
C20_LoadEventuallyReenabled ==
  /\ isLoadingConfig ~> ~isLoadingConfig
  /\ isLoadingEnv ~> ~isLoadingEnv

----------------------------------------------------------------------------
(* Properties of the stages of a config load (checked under SpecVersion).  *)

StageSuccession ==
  { <<"picking", "picked">>, <<"picked", "processing">>, <<"processing", "resolved">> }

(* C21: a config load goes through file pick, version detection and       *)
(* classification, ProcessConfiguration and merge in this order and ends   *)
(* at the first failure; ProcessConfiguration is called only with the text *)
(* of a successful pick and a group that contains the detected version,    *)
(* and the document is merged only from a result that reports success.     *)
C21_StagesInOrder ==
  [][ /\ Len(configOps') > Len(configOps) => configOps'[Len(configOps')].stage = "picking"
      /\ \A i \in DOMAIN configOps :
           (Len(configOps') = Len(configOps) /\ configOps'[i] # configOps[i]) =>
             /\ <<configOps[i].stage, configOps'[i].stage>> \in StageSuccession
             /\ configOps[i].stage # "picking" => configOps'[i].response = configOps[i].response
      /\ \A i \in DOMAIN configOps' :
           configOps'[i].stage \in {"processing", "resolved"} =>
             /\ configOps'[i].response.success
             /\ configOps'[i].loadedVersion # None
             /\ configOps'[i].versionGroup # None
             /\ configOps'[i].loadedVersion[1]
                  \in versionExpectMap[configOps'[i].versionGroup[1]]
      /\ form' # form => \E i \in DOMAIN configOps : ConfigMergeStep(i) ]_vars

C21_Witness ==
  /\ Len(configOps) = 1
  /\ configOps[1].stage = "resolved"
  /\ configOps[1].result[1].success
  /\ configOps[1].versionGroup = Some("v2")
  /\ configOps[1].loadedVersion = Some(Text200)

----------------------------------------------------------------------------
(* Properties of edits made while a load runs (checked under SpecEdit).    *)

(* C22 as stated: while a config load waits for ProcessConfiguration no    *)
(* edit, list change or reset changes the document; the only step that     *)
(* changes it before the load has ended is the merge of the load.          *)
C22_NoMutationDuringLoad ==
  [][ ((\E i \in DOMAIN configOps : configOps[i].stage = "processing") /\ form' # form)
        => \E i \in DOMAIN configOps : ConfigMergeStep(i) ]_vars

(* C22, amended: edits, list changes and resets stay possible while a      *)
(* config load waits for ProcessConfiguration; the merge of a successful   *)
(* load then sets every field of site and api to the loaded data, whatever *)
(* was changed there meanwhile, and keeps environment as the user left it. *)
C22_MergeOverwritesSiteAndApiOnly ==
  [][ /\ (\E i \in DOMAIN configOps : configOps[i].stage = "processing") =>
           /\ ENABLED EditField("api", "api-edited")
           /\ ENABLED OnReset("all")
           /\ \A name \in ListNames :
                Len(GetValue(form, name)) > 0 => ENABLED RemoveItem(name, 1)
      /\ \A i \in DOMAIN configOps :
           ConfigMergeStep(i) =>
             \A path \in FieldPaths :
               GetValue(form', path) =
                 IF path = "environment" THEN form.environment
                 ELSE GetValue(configOps[i].result[1].data[1], path) ]_vars

C22_Witness ==
  /\ toasts.config = Toast("success", "Configuration loaded")
  /\ toasts.reset.type = "success"
  /\ configOps = << >>
  /\ form.site = LoadedSite
  /\ form.api = "api-loaded"
  /\ form.environment = "env-edited"

(* C23: the submit control is disabled in every state where the form is    *)
(* not dirty or not valid, so no click on it takes effect there and a      *)
(* generation starts only from a dirty and valid form; Reset All leaves    *)
(* the form not dirty, hence the control disabled.                         *)
C23_GenerateDisabledUnlessDirtyAndValid ==
  [][ /\ (~isDirty \/ ~isValid) =>
           /\ ~ButtonEnabled(isSubmitting, ~isValid \/ ~isDirty)
           /\ ~ENABLED Submit
      /\ Len(submitOps') > Len(submitOps) => isDirty /\ isValid
      /\ OnReset("all") => ~isDirty' /\ ~ButtonEnabled(isSubmitting', ~isValid' \/ ~isDirty') ]_vars

C23_Witness ==
  /\ toasts.reset = Toast("success", "Form reverted to initial state")
  /\ form = initialConfiguration
  /\ ~isDirty
  /\ downloads # << >>
  /\ submitOps = << >>

(* C24: a generation that comes back with success = false ends without a  *)
(* download and with the document as it was; the list of downloads grows   *)
(* only by the step that ends a successful generation, after its result    *)
(* arrived, and by exactly one entry; no step of a generation changes the  *)
(* document.                                                               *)
C24_DownloadOncePerSuccess ==
  [][ /\ \A i \in DOMAIN submitOps :
           ( /\ submitOps[i].stage = "resolved"
             /\ ~submitOps[i].result[1].success
             /\ submitOps' = RemoveAt(submitOps, i) )
           => (downloads' = downloads /\ form' = form)
      /\ \A i \in DOMAIN submitOps :
           DeliveryStep(i) => (Len(downloads') = Len(downloads) + 1 /\ form' = form)
      /\ downloads' # downloads =>
           /\ \E i \in DOMAIN submitOps : DeliveryStep(i)
           /\ downloads' = Append(downloads, downloads'[Len(downloads')])
      /\ submitOps' # submitOps => form' = form ]_vars

C24_Witness ==
  /\ toasts.download = Toast("error", "Failed to generate configuration")
  /\ downloads = << >>
  /\ submitOps = << >>
  /\ ~isSubmitting
  /\ form # initialConfiguration

C26_LoadsCommute ==
  [][ /\ \A i \in DOMAIN configOps :
           ConfigMergeStep(i) =>
             /\ form'.site = configOps[i].result[1].data[1].site
             /\ form'.api = configOps[i].result[1].data[1].api
             /\ form'.environment = form.environment
             /\ envOps' = envOps
      /\ \A i \in DOMAIN envOps :
           EnvMergeStep(i) =>
             /\ form'.environment = envOps[i].result[1].data[1]
             /\ form'.site = form.site
             /\ form'.api = form.api
             /\ configOps' = configOps
      /\ ~( \/ \E i \in DOMAIN configOps : ConfigMergeStep(i)
            \/ \E i \in DOMAIN envOps : EnvMergeStep(i) ) => form' = form ]_vars

C26_Witness ==
  /\ Len(configOps) = 1 /\ configOps[1].stage = "resolved" /\ configOps[1].result[1].success
  /\ Len(envOps) = 1 /\ envOps[1].stage = "resolved" /\ envOps[1].result[1].success
  /\ form = initialConfiguration

----------------------------------------------------------------------------
(* Properties of the formatter across lines and values (under SpecFooter). *)

(* The lines of the footer rendered one by one and joined by newlines. *)
LinewiseRender ==
  Join([i \in DOMAIN form.site.footer |->
          formatFooterContent(SingleLine(form.site.footer[i].value), Some(form.site))],
       << "\n" >>)

(* The token occurrences of s that reach over a line break. *)
TokensAcrossLines(s) ==
  {i \in TokenStarts(s) : \E k \in i..(TokenAt(s, i).next - 1) : s[k] = "\n"}

(* C27 as stated: the rendered footer is the newline-join of the renders   *)
(* of its lines, no token being formed across a line boundary.             *)
C27_RenderIsLinewise ==
  content # None => content[1] = LinewiseRender

(* C27, amended: the lines are joined first and substituted afterwards,    *)
(* and the white space inside the braces of a token may be a line break.   *)
(* The rendered footer is the newline-join of the renders of its lines     *)
(* whenever no token of the joined text reaches over a line break; the     *)
(* lines "{{" and "year}}" form one token and render as the year.          *)
C27_LinewiseUnlessTokenSpansLines ==
  content # None =>
    /\ TokensAcrossLines(JoinedFooter) = {} => content[1] = LinewiseRender
    /\ form.site.footer = << [value |-> TextOpen], [value |-> TextYearWord \o TextClose] >>
         => (content[1] = NumberToString(year) /\ LinewiseRender = JoinedFooter)

C27_Witness ==
  /\ form.site.footer = << [value |-> TextYearToken \o TextSpace],
                           [value |-> TextSpace \o TextCreatorToken] >>
  /\ content = Some(LinewiseRender)
  /\ content # Some(JoinedFooter)

(* C28: the substitution is one pass over the joined text: every token of  *)
(* the text gives way to its value and an inserted value is not scanned    *)
(* again, so a token inside a value (a siteAuthor of "{{ year }}") stays   *)
(* in the output as it is.                                                 *)
C28_SinglePass ==
  content # None =>
    LET j == JoinedFooter
        values == formatMap(form.site)
        inserted == {values[TokenAt(j, i).key] : i \in TokenStarts(j)}
    IN AllKeysKnown(j) =>
         /\ content[1] = Substituted(j, 1, TokenStarts(j), values)
         /\ \A v \in inserted :
              TokenStarts(v) # {} =>
                \E k \in 1..Len(content[1]) : SubSeq(content[1], k, k + Len(v) - 1) = v

C28_Witness ==
  /\ form.site.footer = SingleLine(TextAuthorToken)
  /\ form.site.siteAuthor = Some(TextYearToken)
  /\ content = Some(TextYearToken)

----------------------------------------------------------------------------
(* Property of the site name preview (checked under SpecSiteName).         *)

(* C29 as stated: a %s inside the site name is not taken for the page      *)
(* title placeholder: where the template had its first %t the preview      *)
(* shows the site name as typed (site names with a $ left aside).          *)
C29_PercentSInNameUntouched ==
  LET template == Nullish(form.site.siteNameTemplate, StrNoTemplate)
      name == Nullish(form.site.siteName, StrApunteUDA)
      t == IndexOf(template, StrPercentT, 1)
      s == IndexOf(template, StrPercentS, 1)
      at == IF s # 0 /\ s < t THEN t + Len(StrPageTitle) - Len(StrPercentS) ELSE t
  IN ( /\ t # 0
       /\ IndexOf(name, StrPercentS, 1) # 0
       /\ \A k \in DOMAIN name : name[k] # "$" )
     => SubSeq(SiteNamePreview, at, at + Len(name) - 1) = name

----------------------------------------------------------------------------
(* Property of the footer preview (checked under SpecPreview).             *)

(* C30: the preview changes only when the footer field mounts or Reload    *)
(* Preview is clicked; edits of the footer lines and of the site fields,   *)
(* appends, removes, resets and loads leave it as it was.  Right after a   *)
(* mount or a reload it is formatFooterContent of the footer lines and the *)
(* site values of that moment.                                             *)
C30_PreviewChangesOnlyOnReload ==
  [][ /\ content' # content => (MountFooterField \/ ReloadPreview)
      /\ (MountFooterField \/ ReloadPreview) =>
           content' = Some(formatFooterContent(form'.site.footer, Some(form'.site)))
      /\ form' # form => content' = content ]_vars

C30_Witness ==
  /\ content # None
  /\ content # Some(formatFooterContent(initialConfiguration.site.footer,
                                        Some(initialConfiguration.site)))
  /\ content # Some(formatFooterContent(form.site.footer, Some(form.site)))
  /\ form.site.footer = << [value |-> TextSiteNameToken] >>

=============================================================================
